---- MODULE Spec2Model ----
(***************************************************************************)
(* Transverse shear of polygonal cross-sections (mechanics.section).       *)
(*                                                                         *)
(* The model follows mechanics/section/stress/transverse_shear.py, the     *)
(* line primitives of mechanics/utils/utils.py and the polygon classes of  *)
(* mechanics/geometry/shapes/shapes.py and mechanics/section/geometry.     *)
(*                                                                         *)
(* Numbers.  The program computes with Python floats and rounds every      *)
(* coordinate to 12 decimals.  The model computes with exact rationals     *)
(* <<n, d>> (d > 0, gcd(n, d) = 1), so two numbers are equal exactly when  *)
(* their pairs are equal.  The sections and cut heights used here have     *)
(* integer or half-integer dimensions, for which the program's float       *)
(* comparisons agree with the exact ones.  Physical units are dropped:     *)
(* every quantity is a magnitude in one consistent unit.                   *)
(***************************************************************************)
EXTENDS Integers, Sequences, FiniteSets, TLC

(* With(v, Body): Body applied to the value of v (a local binding)          *)
With(v, Body(_)) == CHOOSE r \in {Body(x) : x \in {v}} : TRUE

(***************************************************************************)
(* Exact rational arithmetic                                               *)
(***************************************************************************)
Abs(n) == IF n < 0 THEN -n ELSE n

RECURSIVE GCD(_, _)
GCD(a, b) == IF b = 0 THEN a ELSE GCD(b, a % b)

Rat(n, d) ==
    With(GCD(Abs(n), Abs(d)), LAMBDA g :
        IF d < 0 THEN << (-n) \div g, (-d) \div g >> ELSE << n \div g, d \div g >>)

R(n) == << n, 1 >>
Zero == << 0, 1 >>

RNeg(a) == << -a[1], a[2] >>
RAbs(a) == << Abs(a[1]), a[2] >>
RAdd(a, b) ==
    With((a[2] \div GCD(a[2], b[2])) * b[2], LAMBDA l :
        Rat(a[1] * (l \div a[2]) + b[1] * (l \div b[2]), l))
RSub(a, b) == RAdd(a, RNeg(b))
RMul(a, b) ==
    With(<< GCD(Abs(a[1]), b[2]), GCD(Abs(b[1]), a[2]) >>, LAMBDA g :
        Rat((a[1] \div g[1]) * (b[1] \div g[2]), (a[2] \div g[2]) * (b[2] \div g[1])))
RDiv(a, b) == RMul(a, IF b[1] < 0 THEN << -b[2], -b[1] >> ELSE << b[2], b[1] >>)
RLt(a, b) == RAdd(a, RNeg(b))[1] < 0
RLe(a, b) == RAdd(a, RNeg(b))[1] <= 0
RGt(a, b) == RLt(b, a)
RGe(a, b) == RLe(b, a)
RSign(a) == IF a[1] > 0 THEN 1 ELSE IF a[1] < 0 THEN -1 ELSE 0
RMin2(a, b) == IF RLe(a, b) THEN a ELSE b
RMax2(a, b) == IF RGe(a, b) THEN a ELSE b

(* the sum of a list, halving the list                                     *)
RECURSIVE RSum(_)
RSum(s) ==
    IF s = << >> THEN Zero
    ELSE IF Len(s) = 1 THEN s[1]
    ELSE RAdd(RSum(SubSeq(s, 1, Len(s) \div 2)),
              RSum(SubSeq(s, Len(s) \div 2 + 1, Len(s))))

RECURSIVE RMinSeq(_)
RMinSeq(s) == IF Len(s) = 1 THEN s[1] ELSE RMin2(Head(s), RMinSeq(Tail(s)))

RECURSIVE RMaxSeq(_)
RMaxSeq(s) == IF Len(s) = 1 THEN s[1] ELSE RMax2(Head(s), RMaxSeq(Tail(s)))

(* a point (x, y) *)
Pt(x, y) == << x, y >>
P2(a, b) == << << a, 1 >>, << b, 1 >> >>
PX(p) == p[1]
PY(p) == p[2]

(* list helpers *)
rev(s) == [i \in 1 .. Len(s) |-> s[Len(s) + 1 - i]]
RemoveAt(s, i) == [k \in 1 .. Len(s) - 1 |-> IF k < i THEN s[k] ELSE s[k + 1]]
InsertAt(s, i, e) ==
    [k \in 1 .. Len(s) + 1 |-> IF k < i THEN s[k] ELSE IF k = i THEN e ELSE s[k - 1]]
(* position of the first element satisfying T, 0 if there is none *)
FirstIndex(s, T(_)) ==
    IF \E k \in 1 .. Len(s) : T(s[k])
    THEN CHOOSE k \in 1 .. Len(s) : T(s[k]) /\ \A l \in 1 .. k - 1 : ~T(s[l])
    ELSE 0
(* list.sort(key=...): a stable sort by a rational key *)
sort_by(s, key(_)) ==
    LET pos(i) == Cardinality({j \in 1 .. Len(s) :
                      \/ RLt(key(s[j]), key(s[i]))
                      \/ key(s[j]) = key(s[i]) /\ j < i}) + 1
    IN  [k \in 1 .. Len(s) |-> s[CHOOSE i \in 1 .. Len(s) : pos(i) = k]]

(***************************************************************************)
(* Line and LineSegment (mechanics/utils/utils.py)                         *)
(***************************************************************************)
(* Line.from_two_points: slope m = (y2-y1)/(x2-x1); a zero division makes  *)
(* it +inf when y2 > y1 and -inf otherwise (also for p1 = p2).             *)
(* inf is 1 for +inf, -1 for -inf, 0 for a finite slope m.  q = y1 - m*x1  *)
(* is kept for finite slopes only (it is inf or NaN otherwise and the      *)
(* program uses it for finite slopes only).                                *)
from_two_points(p1, p2) ==
    IF PX(p2) = PX(p1)
    THEN [inf |-> IF RGt(PY(p2), PY(p1)) THEN 1 ELSE -1, m |-> Zero, q |-> Zero]
    ELSE With(RDiv(RSub(PY(p2), PY(p1)), RSub(PX(p2), PX(p1))), LAMBDA m :
            [inf |-> 0, m |-> m, q |-> RSub(PY(p1), RMul(m, PX(p1)))])

(* LineSegment.__init__: the line and the bounding box.  id tells objects  *)
(* with equal end points apart, as list.index() does by identity.          *)
LineSegment(p1, p2, id) ==
    [p1 |-> p1, p2 |-> p2, id |-> id, line |-> from_two_points(p1, p2),
     x_min |-> RMin2(PX(p1), PX(p2)), x_max |-> RMax2(PX(p1), PX(p2)),
     y_min |-> RMin2(PY(p1), PY(p2)), y_max |-> RMax2(PY(p1), PY(p2))]

x1(s) == s.p1[1]
y1(s) == s.p1[2]
x2(s) == s.p2[1]
y2(s) == s.p2[2]

is_vertical(s) == s.line.inf # 0
is_horizontal(s) == s.line.inf = 0 /\ s.line.m = Zero

(* sign of LineSegment.slope: -1, 0, 1 (an infinite slope has a sign)       *)
slope_sign(s) == IF s.line.inf # 0 THEN s.line.inf ELSE RSign(s.line.m)

(* the test of LineSegment.x(y) with the end points excluded               *)
seg_has_x_exclusive(s, y) == RLt(s.y_min, y) /\ RLt(y, s.y_max)

(* LineSegment.x(y): None outside [y_min, y_max]; Line.x gives NaN for a    *)
(* horizontal line (zero division) and for a vertical one (inf/inf), and   *)
(* NaN is replaced by x1.                                                  *)
seg_has_x(s, y) == RLe(s.y_min, y) /\ RLe(y, s.y_max)
seg_x(s, y) ==
    IF s.line.inf # 0 \/ s.line.m = Zero
    THEN x1(s)
    ELSE RDiv(RSub(y, s.line.q), s.line.m)

(* LineSegment.y(x): None outside [x_min, x_max]; NaN (vertical) gives y1.  *)
seg_has_y(s, x) == RLe(s.x_min, x) /\ RLe(x, s.x_max)
seg_y(s, x) ==
    IF s.line.inf # 0
    THEN y1(s)
    ELSE RAdd(RMul(s.line.m, x), s.line.q)

(* LineSegment.contains compares doubles: Line.x divides and Line.y        *)
(* multiplies and adds, each result rounded to 53 bits, so the round trip  *)
(* m * ((y - q) / m) + q of a point the segment itself produced need not   *)
(* give y back.  On the edges and cut heights of the sections below the    *)
(* doubles agree with the exact values except for the edge of slope 4/5:   *)
(*   0.8 * ((0.5 + 1.4) / 0.8) - 1.4    =  0.4999999999999998              *)
(*   0.8 * ((-0.5 - 1.4) / 0.8) + 1.4   = -0.4999999999999998              *)
(* << m, q, point >> of the comparisons y == point[1] that fail this way   *)
DoubleRoundTripLost ==
    { << Rat(4, 5), Rat(-7, 5), Pt(Rat(19, 8), Rat(1, 2)) >>,
      << Rat(4, 5), Rat(7, 5), Pt(Rat(-19, 8), Rat(-1, 2)) >> }

(* y == point[1] in LineSegment.contains                                   *)
y_equals(s, point) ==
    /\ seg_y(s, PX(point)) = PY(point)
    /\ << s.line.m, s.line.q, point >> \notin DoubleRoundTripLost

contains(s, point) ==
    With(<< seg_has_x(s, PY(point)) /\ seg_x(s, PY(point)) = PX(point),
            seg_has_y(s, PX(point)) /\ y_equals(s, point) >>,
         LAMBDA cond :
            \/ ~is_vertical(s) /\ cond[1] /\ cond[2]
            \/ is_vertical(s) /\ cond[1]
            \/ is_horizontal(s) /\ cond[2])

(* LineSegment.length of a horizontal or a vertical segment (the program   *)
(* takes the length of horizontal segments only)                           *)
length(s) ==
    IF is_horizontal(s) THEN RAbs(RSub(x2(s), x1(s)))
    ELSE RAbs(RSub(y2(s), y1(s)))

(* LineSegment.coincide (called on horizontal segments only, whose q is    *)
(* finite)                                                                 *)
coincide(s, other) ==
    /\ s.line.inf = other.line.inf /\ s.line.m = other.line.m
    /\ s.line.q = other.line.q
    /\ \/ RLe(other.x_min, s.x_min) /\ RLe(s.x_min, other.x_max)
       \/ RLe(s.x_min, other.x_min) /\ RLe(other.x_min, s.x_max)

reverse(s) == LineSegment(s.p2, s.p1, s.id)

(***************************************************************************)
(* Polygon (mechanics/geometry/shapes/shapes.py)                           *)
(***************************************************************************)
(* the shoelace term k_i = x_i*y_(i+1) - x_(i+1)*y_i of ring points i, i+1 *)
cross_k(pts, i) ==
    RSub(RMul(pts[i][1], pts[i + 1][2]), RMul(pts[i + 1][1], pts[i][2]))

(* the shoelace terms of the closed ring pts                               *)
cross_terms(pts) == [i \in 1 .. Len(pts) - 1 |-> cross_k(pts, i)]

(* Polygon.__area: A = s / 2                                               *)
area_of(k) == RDiv(RSum(k), R(2))

(* Polygon.__centroid: sx / (6 A), sy / (6 A); the caller checks A # 0     *)
centroid_of(pts, k, A) ==
    With(RMul(R(6), A), LAMBDA d :
        << RDiv(RSum([i \in 1 .. Len(k) |-> RMul(k[i], RAdd(pts[i][1], pts[i + 1][1]))]), d),
           RDiv(RSum([i \in 1 .. Len(k) |-> RMul(k[i], RAdd(pts[i][2], pts[i + 1][2]))]), d) >>)

(* Polygon.__init__ on a closed ring: area and centroid.  A zero area      *)
(* makes __centroid divide by zero.                                        *)
polygon_of_ring(pts) ==
    With(cross_terms(pts), LAMBDA k :
    With(area_of(k), LAMBDA A :
        IF A = Zero
        THEN [err |-> "ZeroDivisionError", pts |-> pts, A |-> A,
              x_c |-> Zero, y_c |-> Zero]
        ELSE With(centroid_of(pts, k, A), LAMBDA c :
                [err |-> "none", pts |-> pts, A |-> A, x_c |-> c[1], y_c |-> c[2]])))

(* Polygon.__init__ leaving the ring open                                  *)
Polygon_open_ring(vs) == polygon_of_ring(vs)

(* Polygon.__init__: the first point is repeated as the last one unless    *)
(* it already is.  The inertia is computed from the same ring (below).     *)
Polygon(vs) ==
    polygon_of_ring(IF vs[1] # vs[Len(vs)] THEN Append(vs, vs[1]) ELSE vs)

(* Polygon.__inertia, I_xx = sxx / 12 - A * y_c^2                          *)
moment_of_inertia_xx(pg) ==
    RSub(RDiv(RSum([i \in 1 .. Len(pg.pts) - 1 |->
                 RMul(cross_k(pg.pts, i),
                      RAdd(RMul(pg.pts[i][2], RAdd(pg.pts[i][2], pg.pts[i + 1][2])),
                           RMul(pg.pts[i + 1][2], pg.pts[i + 1][2])))]),
              R(12)),
         RMul(pg.A, RMul(pg.y_c, pg.y_c)))

(* Polygon.__inertia, I_yy = syy / 12 - A * x_c^2                          *)
moment_of_inertia_yy(pg) ==
    RSub(RDiv(RSum([i \in 1 .. Len(pg.pts) - 1 |->
                 RMul(cross_k(pg.pts, i),
                      RAdd(RMul(pg.pts[i][1], RAdd(pg.pts[i][1], pg.pts[i + 1][1])),
                           RMul(pg.pts[i + 1][1], pg.pts[i + 1][1])))]),
              R(12)),
         RMul(pg.A, RMul(pg.x_c, pg.x_c)))

(* Polygon.__inertia with I_xy left about the origin of the vertices       *)
product_of_inertia_about_origin(pg) ==
    RDiv(RSum([i \in 1 .. Len(pg.pts) - 1 |->
                 RMul(cross_k(pg.pts, i),
                      RAdd(RAdd(RMul(pg.pts[i][1], pg.pts[i + 1][2]),
                                RMul(R(2), RMul(pg.pts[i][1], pg.pts[i][2]))),
                           RAdd(RMul(R(2), RMul(pg.pts[i + 1][1], pg.pts[i + 1][2])),
                                RMul(pg.pts[i + 1][1], pg.pts[i][2]))))]),
         R(24))

(* Polygon.__inertia, I_xy = sxy / 24 - A * x_c * y_c                      *)
product_of_inertia(pg) ==
    RSub(RDiv(RSum([i \in 1 .. Len(pg.pts) - 1 |->
                 RMul(cross_k(pg.pts, i),
                      RAdd(RAdd(RMul(pg.pts[i][1], pg.pts[i + 1][2]),
                                RMul(R(2), RMul(pg.pts[i][1], pg.pts[i][2]))),
                           RAdd(RMul(R(2), RMul(pg.pts[i + 1][1], pg.pts[i + 1][2])),
                                RMul(pg.pts[i + 1][1], pg.pts[i][2]))))]),
              R(24)),
         RMul(pg.A, RMul(pg.x_c, pg.y_c)))

(* Polygon.__init__: J = I_xx + I_yy                                       *)
polar_moment_of_inertia(pg) ==
    RAdd(moment_of_inertia_xx(pg), moment_of_inertia_yy(pg))

(* atan(a / b) / 2 in the place of atan2(a, b) / 2: a zero a gives 0       *)
(* whatever the sign of b                                                  *)
half_atan(a, b) ==
    IF a = Zero THEN "0"
    ELSE IF b = Zero THEN (IF RGt(a, Zero) THEN "pi/4" ELSE "-pi/4")
    ELSE IF RGt(a, Zero) THEN (IF RGt(b, Zero) THEN "(0,pi/4)" ELSE "(-pi/4,0)")
    ELSE (IF RGt(b, Zero) THEN "(-pi/4,0)" ELSE "(0,pi/4)")

(* atan2(a, b) / 2 as math.atan2 gives it: the exact multiples of pi / 4,   *)
(* or the open interval between two of them.  a is the negation of a float *)
(* product of inertia, so a zero a is -0.0 and atan2(-0.0, b) is -pi for a *)
(* negative b and -0.0 otherwise.                                          *)
half_atan2(a, b) ==
    IF a = Zero THEN (IF RLt(b, Zero) THEN "-pi/2" ELSE "0")
    ELSE IF b = Zero THEN (IF RGt(a, Zero) THEN "pi/4" ELSE "-pi/4")
    ELSE IF RGt(a, Zero) THEN (IF RGt(b, Zero) THEN "(0,pi/4)" ELSE "(pi/4,pi/2)")
    ELSE (IF RGt(b, Zero) THEN "(-pi/4,0)" ELSE "(-pi/2,-pi/4)")

(* Polygon.__principal: I_max = avg + k and I_min = avg - k, where k is    *)
(* the square root of k_squared, and theta = atan2(-I_xy, diff) / 2        *)
principal(I_xx, I_yy, I_xy) ==
    With(RDiv(RSub(I_xx, I_yy), R(2)), LAMBDA diff :
        [avg |-> RDiv(RAdd(I_xx, I_yy), R(2)),
         k_squared |-> RAdd(RMul(diff, diff), RMul(I_xy, I_xy)),
         theta |-> half_atan2(RNeg(I_xy), diff)])

(* Polygon.vertices: the ring without its closing point, relative to the   *)
(* centroid                                                                *)
vertices(pg) ==
    [i \in 1 .. Len(pg.pts) - 1 |->
        Pt(RSub(pg.pts[i][1], pg.x_c), RSub(pg.pts[i][2], pg.y_c))]

(* Polygon.shift moving the vertices and leaving the centroid where it was *)
shift_vertices_only(pg, x, y) ==
    With(<< RSub(x, pg.x_c), RSub(y, pg.y_c) >>, LAMBDA d :
        [pg EXCEPT !.pts = [i \in 1 .. Len(pg.pts) |->
                               Pt(RAdd(pg.pts[i][1], d[1]), RAdd(pg.pts[i][2], d[2]))]])

(* Polygon.shift(x, y): translate the ring so that the centroid is (x, y)  *)
shift(pg, x, y) ==
    With(<< RSub(x, pg.x_c), RSub(y, pg.y_c) >>, LAMBDA d :
        [pg EXCEPT !.pts = [i \in 1 .. Len(pg.pts) |->
                               Pt(RAdd(pg.pts[i][1], d[1]), RAdd(pg.pts[i][2], d[2]))],
                   !.x_c = RAdd(pg.x_c, d[1]),
                   !.y_c = RAdd(pg.y_c, d[2])])

(***************************************************************************)
(* A shape is a record: kind "Polygon" with the polygon pg, or kind        *)
(* "HollowPolygon" with outer_polygon and inner_polygon.  cls is the class *)
(* of the object and dim holds the arguments it was constructed from.      *)
(***************************************************************************)
NoDim == [width |-> Zero, height |-> Zero, web_thickness |-> Zero,
          flange_thickness |-> Zero, thickness |-> Zero]
NoPolygon == [err |-> "none", pts |-> << >>, A |-> Zero, x_c |-> Zero, y_c |-> Zero]

SolidShape(pg) ==
    [kind |-> "Polygon", cls |-> "Polygon", dim |-> NoDim, pg |-> pg,
     outer_polygon |-> NoPolygon, inner_polygon |-> NoPolygon]

(* HollowPolygon.__init__: the inner polygon is shifted onto the centroid   *)
(* of the outer one                                                        *)
HollowPolygon(outer_polygon, inner_polygon) ==
    [kind |-> "HollowPolygon", cls |-> "HollowPolygon", dim |-> NoDim, pg |-> NoPolygon,
     outer_polygon |-> outer_polygon,
     inner_polygon |-> shift(inner_polygon, outer_polygon.x_c, outer_polygon.y_c)]

(* Shape.moment_of_inertia_xx: Polygon's own, or outer minus inner          *)
shape_I_xx(shape) ==
    IF shape.kind = "Polygon"
    THEN moment_of_inertia_xx(shape.pg)
    ELSE RSub(moment_of_inertia_xx(shape.outer_polygon),
              moment_of_inertia_xx(shape.inner_polygon))

(* Shape.area adding the inner polygon instead of removing it               *)
shape_area_sum(shape) ==
    IF shape.kind = "Polygon"
    THEN shape.pg.A
    ELSE RAdd(shape.outer_polygon.A, shape.inner_polygon.A)

(* Shape.area: Polygon's own, or outer minus inner                          *)
shape_area(shape) ==
    IF shape.kind = "Polygon"
    THEN shape.pg.A
    ELSE RSub(shape.outer_polygon.A, shape.inner_polygon.A)

(* Shape.centroid: Polygon's own, or that of the outer polygon              *)
shape_centroid(shape) ==
    IF shape.kind = "Polygon"
    THEN << shape.pg.x_c, shape.pg.y_c >>
    ELSE << shape.outer_polygon.x_c, shape.outer_polygon.y_c >>

(* Shape.moment_of_inertia_yy: Polygon's own, or outer minus inner          *)
shape_I_yy(shape) ==
    IF shape.kind = "Polygon"
    THEN moment_of_inertia_yy(shape.pg)
    ELSE RSub(moment_of_inertia_yy(shape.outer_polygon),
              moment_of_inertia_yy(shape.inner_polygon))

(* Shape.product_of_inertia: Polygon's own; HollowPolygon reads the outer   *)
(* polygon for both I_xy_o and I_xy_i                                      *)
shape_I_xy(shape) ==
    IF shape.kind = "Polygon"
    THEN product_of_inertia(shape.pg)
    ELSE RSub(product_of_inertia(shape.outer_polygon),
              product_of_inertia(shape.outer_polygon))

(* Shape.principal_moments_of_inertia                                       *)
shape_principal(shape) ==
    principal(shape_I_xx(shape), shape_I_yy(shape), shape_I_xy(shape))

(***************************************************************************)
(* The standard sections (mechanics/section/geometry)                      *)
(***************************************************************************)
(* Rectangle.__create_vertices: [p1, p4, p3, p2]                            *)
Rectangle(w, h) ==
    Polygon(<< Pt(Zero, Zero), Pt(w, Zero), Pt(w, h), Pt(Zero, h) >>)

(* HShape.__create_vertices: twelve points listed clockwise, then reversed  *)
HShape(h, w, t_w, t_f) ==
    With(<< RDiv(RSub(w, t_w), R(2)), RDiv(RAdd(w, t_w), R(2)), RSub(h, t_f) >>, LAMBDA c :
        Polygon(rev(<< Pt(Zero, Zero), Pt(Zero, t_f), Pt(c[1], t_f),
                       Pt(c[1], c[3]), Pt(Zero, c[3]), Pt(Zero, h),
                       Pt(w, h), Pt(w, c[3]), Pt(c[2], c[3]),
                       Pt(c[2], t_f), Pt(w, t_f), Pt(w, Zero) >>)))

(* CShape.__create_vertices with orientation 0                              *)
CShape(h, w, t_w, t_f) ==
    With(RSub(h, t_f), LAMBDA c :
        Polygon(rev(<< Pt(Zero, Zero), Pt(Zero, h), Pt(w, h), Pt(w, c),
                       Pt(t_w, c), Pt(t_w, t_f), Pt(w, t_f), Pt(w, Zero) >>)))

(* HollowRectangle.__init__                                                 *)
HollowRectangle(w, h, thickness) ==
    HollowPolygon(Rectangle(w, h),
                  Rectangle(RSub(w, RMul(R(2), thickness)),
                            RSub(h, RMul(R(2), thickness))))

(***************************************************************************)
(* TransverseShear (mechanics/section/stress/transverse_shear.py)          *)
(***************************************************************************)
(* __create_polygon_line_segments: segment i runs from vertex i to the     *)
(* next vertex of the ring (the last one back to the first); base numbers  *)
(* the segment objects.                                                    *)
create_polygon_line_segments(polygon, base) ==
    With(vertices(polygon), LAMBDA v :
        [i \in 1 .. Len(v) |->
            LineSegment(v[i], v[IF i + 1 <= Len(v) THEN i + 1 ELSE 1], base + i)])

(* __create_line_segments: a hollow polygon gives the outer ring followed  *)
(* by the inner ring reversed, each of its segments reversed.              *)
create_line_segments(shape) ==
    IF shape.kind = "Polygon"
    THEN create_polygon_line_segments(shape.pg, 0)
    ELSE With(create_polygon_line_segments(shape.inner_polygon,
                                           Len(shape.outer_polygon.pts) - 1),
              LAMBDA inner_segments :
                create_polygon_line_segments(shape.outer_polygon, 0) \o
                [i \in 1 .. Len(inner_segments) |->
                    reverse(inner_segments[Len(inner_segments) + 1 - i])])

(* __get_intersections: one point (x, y) per segment that has an x at y     *)
get_intersections(y, segments) ==
    With(SelectSeq(segments, LAMBDA s : seg_has_x(s, y)), LAMBDA hit :
        [i \in 1 .. Len(hit) |-> Pt(seg_x(hit[i], y), y)])

(* the clipping loop body of _cut_polygon for one segment: every            *)
(* intersection the segment contains replaces segments[i] by a piece of    *)
(* the original segment, so the last contained intersection decides.       *)
clip_segment(y, segment, intersections) ==
    With(SelectSeq(intersections, LAMBDA p : contains(segment, p)), LAMBDA hits :
        IF hits = << >> \/ slope_sign(segment) = 0 THEN segment
        ELSE IF (slope_sign(segment) < 0) = RGe(y, Zero)
        THEN LineSegment(segment.p1, hits[Len(hits)], segment.id)
        ELSE LineSegment(hits[Len(hits)], segment.p2, segment.id))

IndexOf(s, seg) == FirstIndex(s, LAMBDA e : e.id = seg.id)

(* the None that __order_segments appends as a chain break *)
NoneSegment == LineSegment(Pt(Zero, Zero), Pt(Zero, Zero), 0)

(* first for loop of the while body: the first valid segment that starts   *)
(* where the current one ends is moved to the end of the ordered list.     *)
(* st = << valid_segments, ordered_segments, flag >>                       *)
append_successor(valid_segments, ordered_segments, current_segment) ==
    With(FirstIndex(valid_segments, LAMBDA s : s.p1 = current_segment.p2), LAMBDA i :
        IF i = 0 THEN << valid_segments, ordered_segments, FALSE >>
        ELSE << RemoveAt(valid_segments, i),
                Append(ordered_segments, valid_segments[i]), TRUE >>)

(* second for loop: the first valid segment that ends where the current    *)
(* one starts is inserted in front of the current one.                     *)
insert_predecessor(valid_segments, ordered_segments, current_segment) ==
    With(FirstIndex(valid_segments, LAMBDA s : s.p2 = current_segment.p1), LAMBDA i :
        IF i = 0 THEN << valid_segments, ordered_segments, FALSE >>
        ELSE << RemoveAt(valid_segments, i),
                InsertAt(ordered_segments, IndexOf(ordered_segments, current_segment),
                         valid_segments[i]), TRUE >>)

(* the iteration whose last branch takes valid_segments[0] without popping *)
(* it                                                                      *)
order_step_without_pop(valid_segments, ordered_segments, current_segment) ==
    With(append_successor(valid_segments, ordered_segments, current_segment), LAMBDA a :
    With(insert_predecessor(a[1], a[2], current_segment), LAMBDA b :
        IF a[3] THEN << b[1], b[2], b[2][Len(b[2])] >>
        ELSE IF b[3]
        THEN << b[1], b[2], b[2][IndexOf(b[2], current_segment) - 1] >>
        ELSE << b[1], b[2] \o << NoneSegment, Head(b[1]) >>, Head(b[1]) >>))

(* one iteration of the while loop of __order_segments:                    *)
(* << valid_segments, ordered_segments, current_segment >> after it        *)
order_step(valid_segments, ordered_segments, current_segment) ==
    With(append_successor(valid_segments, ordered_segments, current_segment), LAMBDA a :
    With(insert_predecessor(a[1], a[2], current_segment), LAMBDA b :
        IF a[3] THEN << b[1], b[2], b[2][Len(b[2])] >>
        ELSE IF b[3]
        THEN << b[1], b[2], b[2][IndexOf(b[2], current_segment) - 1] >>
        ELSE << Tail(b[1]), b[2] \o << NoneSegment, Head(b[1]) >>, Head(b[1]) >>))

(* the while loop of __order_segments *)
RECURSIVE order_loop(_, _, _)
order_loop(valid_segments, ordered_segments, current_segment) ==
    IF valid_segments = << >> THEN ordered_segments
    ELSE With(order_step(valid_segments, ordered_segments, current_segment), LAMBDA st :
            order_loop(st[1], st[2], st[3]))

(* the horizontal segments dropped when the comparison includes the cut    *)
(* line itself                                                             *)
is_excluded_inclusive(y, s) ==
    /\ is_horizontal(s)
    /\ \/ RGe(y, Zero) /\ RLe(y1(s), y)
       \/ RLt(y, Zero) /\ RGe(y1(s), y)

(* the horizontal segments __order_segments drops: those on the near side   *)
(* of the cut line                                                         *)
is_excluded(y, s) ==
    /\ is_horizontal(s)
    /\ \/ RGe(y, Zero) /\ RLt(y1(s), y)
       \/ RLt(y, Zero) /\ RGt(y1(s), y)

(* __order_segments: drop the horizontal segments on the excluded side,     *)
(* chain the rest by matching end points, drop the None markers.           *)
(* An empty list of valid segments makes pop(0) raise IndexError: << >>.   *)
order_segments(y, segments) ==
    With(SelectSeq(segments, LAMBDA s : ~is_excluded(y, s)), LAMBDA valid_segments :
        IF valid_segments = << >> THEN << >>
        ELSE SelectSeq(order_loop(Tail(valid_segments), << Head(valid_segments) >>,
                                  Head(valid_segments)),
                       LAMBDA s : s.id # 0))

(* __get_vertices: the end points on the beyond-y side, segment by segment  *)
is_beyond(y, v) == IF RGe(y, Zero) THEN RGe(v, y) ELSE RLe(v, y)

RECURSIVE get_vertices(_, _)
get_vertices(y, segments) ==
    IF segments = << >> THEN << >>
    ELSE (IF is_beyond(y, y1(Head(segments))) THEN << Head(segments).p1 >> ELSE << >>) \o
         (IF is_beyond(y, y2(Head(segments))) THEN << Head(segments).p2 >> ELSE << >>) \o
         get_vertices(y, Tail(segments))

(* __remove_duplicates: keep the first occurrence of every point            *)
RECURSIVE remove_duplicates_loop(_, _)
remove_duplicates_loop(todo, unique_vertices) ==
    IF todo = << >> THEN unique_vertices
    ELSE remove_duplicates_loop(Tail(todo),
            IF \A k \in 1 .. Len(unique_vertices) : unique_vertices[k] # Head(todo)
            THEN Append(unique_vertices, Head(todo)) ELSE unique_vertices)

remove_duplicates(vs) == remove_duplicates_loop(vs, << vs[1] >>)

(* a call of _cut_polygon that ended in the exception e                     *)
ErrPolygon(e) == [NoPolygon EXCEPT !.err = e]

(* the clipping loop of _cut_polygon                                        *)
clip_segments(y, segments) ==
    With(get_intersections(y, segments), LAMBDA intersections :
        [i \in 1 .. Len(segments) |-> clip_segment(y, segments[i], intersections)])

(* _cut_polygon(y, shape): the fragment beyond y as a new Polygon, or the   *)
(* exception the call ends in (IndexError from pop(0) or vertices[0] of an *)
(* empty list, ZeroDivisionError from the centroid of a zero-area          *)
(* fragment).                                                              *)
cut_polygon(y, shape) ==
    With(order_segments(y, clip_segments(y, create_line_segments(shape))), LAMBDA ordered :
    With(get_vertices(y, ordered), LAMBDA vs :
        IF vs = << >> THEN ErrPolygon("IndexError")
        ELSE Polygon(remove_duplicates(vs))))

(* __get_sum_of_lengths reporting the span as the sum                      *)
get_sum_of_lengths_span(segments) ==
    With(sort_by(segments, x1), LAMBDA sorted :
        [sum_of_lengths |-> RSub(x2(sorted[Len(sorted)]), x1(sorted[1])),
         total_length   |-> RSub(x2(sorted[Len(sorted)]), x1(sorted[1]))])

(* __get_sum_of_lengths: sorts by x1; total_length runs from the first x1   *)
(* to the last x2                                                          *)
get_sum_of_lengths(segments) ==
    With(sort_by(segments, x1), LAMBDA sorted :
        [sum_of_lengths |-> RSum([i \in 1 .. Len(sorted) |-> length(sorted[i])]),
         total_length   |-> RSub(x2(sorted[Len(sorted)]), x1(sorted[1]))])

(* __segments_do_overlap: some segment coincides with another one           *)
segments_do_overlap(segments) ==
    \E i \in 1 .. Len(segments) : \E k \in 1 .. Len(segments) :
        k # i /\ coincide(segments[i], segments[k])

(* the horizontal segments of the cut polygon, from its own vertices        *)
horizontal_segments_of(cut_pg) ==
    SelectSeq(create_polygon_line_segments(cut_pg, 0), is_horizontal)

(* __determine_t(y, cut_polygon).  Result: err is the exception ("none"     *)
(* when the call returns), none tells a returned None, t is the width.     *)
TResult(e, none, t) == [err |-> e, none |-> none, t |-> t]

(* the segments of s whose y1 is v                                          *)
segments_at(s, v) == SelectSeq(s, LAMBDA e : y1(e) = v)

(* y >= 0: the horizontal segments at the lowest y1                         *)
determine_t_above(horizontal_segments) ==
    With(segments_at(horizontal_segments,
                     RMinSeq([i \in 1 .. Len(horizontal_segments) |->
                                 y1(horizontal_segments[i])])),
         LAMBDA segments_min_y1 :
    With(get_sum_of_lengths(segments_min_y1), LAMBDA sl :
        IF Len(segments_min_y1) = 1
        THEN TResult("none", FALSE, length(segments_min_y1[1]))
        ELSE IF Len(segments_min_y1) > 1 /\ sl.sum_of_lengths = sl.total_length
        THEN TResult("none", TRUE, Zero)
        ELSE TResult("none", FALSE, sl.sum_of_lengths)))

(* the overlap branch: longest length minus the sum of the other lengths    *)
overlap_width(segments_max_y1) ==
    With(sort_by(segments_max_y1, length), LAMBDA sorted :
        RSub(length(sorted[Len(sorted)]),
             RSum([i \in 1 .. Len(sorted) - 1 |-> length(sorted[i])])))

(* y < 0: the horizontal segments at the highest y1                         *)
determine_t_below(horizontal_segments) ==
    With(segments_at(horizontal_segments,
                     RMaxSeq([i \in 1 .. Len(horizontal_segments) |->
                                 y1(horizontal_segments[i])])),
         LAMBDA segments_max_y1 :
        IF Len(segments_max_y1) = 1
        THEN TResult("none", FALSE, length(segments_max_y1[1]))
        ELSE IF segments_do_overlap(segments_max_y1)
        THEN TResult("none", FALSE, overlap_width(segments_max_y1))
        ELSE TResult("none", FALSE, get_sum_of_lengths(segments_max_y1).sum_of_lengths))

(* __determine_t giving the width zero when there is no horizontal segment *)
determine_t_defaulting(y, cut_pg) ==
    With(horizontal_segments_of(cut_pg), LAMBDA horizontal_segments :
        IF horizontal_segments = << >> THEN TResult("none", FALSE, Zero)
        ELSE IF RGe(y, Zero) THEN determine_t_above(horizontal_segments)
        ELSE determine_t_below(horizontal_segments))

(* min() / max() of no horizontal segment raises ValueError                 *)
determine_t(y, cut_pg) ==
    With(horizontal_segments_of(cut_pg), LAMBDA horizontal_segments :
        IF horizontal_segments = << >> THEN TResult("ValueError", FALSE, Zero)
        ELSE IF RGe(y, Zero) THEN determine_t_above(horizontal_segments)
        ELSE determine_t_below(horizontal_segments))

(* first_moment taking the other centroid coordinate                       *)
first_moment_about_y(pg) == RMul(pg.A, RAbs(pg.x_c))

(* Q = A_acc * |y_acc| of a cut polygon                                     *)
first_moment(pg) == RMul(pg.A, RAbs(pg.y_c))

(* the offset of the retry in tau: y - 0.01                                 *)
RetryOffset == Rat(1, 100)

(* The record of a call: op and y are the method and its argument, err is  *)
(* the exception the call ends in ("none" when it returns), returned tells *)
(* whether a value (not None) came back and value is that value.  pg, q    *)
(* and t_first are the locals of tau before the retry; retried tells       *)
(* whether the retry ran, y_retry, pg_retry and t are the locals after it  *)
(* (equal to y, pg, t_first when it did not run).                          *)
NoT == TResult("none", FALSE, Zero)
CallResult(op, y, e, returned, value, pg, q, t_first, retried, y_retry, pg_retry, t) ==
    [op |-> op, y |-> y, err |-> e, returned |-> returned, value |-> value,
     pg |-> pg, q |-> q, t_first |-> t_first, retried |-> retried,
     y_retry |-> y_retry, pg_retry |-> pg_retry, t |-> t]

(* tau, line 51: tau = q / t.  A None t makes the division raise           *)
(* TypeError, a zero t ZeroDivisionError.                                  *)
tau_divide(y, pg, q, t_first, retried, y_retry, pg_retry, t) ==
    IF t.err # "none" \/ t.none \/ t.t = Zero
    THEN CallResult("tau", y,
                    IF t.err # "none" THEN t.err
                    ELSE IF t.none THEN "TypeError" ELSE "ZeroDivisionError",
                    FALSE, Zero, pg, q, t_first, retried, y_retry, pg_retry, t)
    ELSE CallResult("tau", y, "none", TRUE, RDiv(q, t.t), pg, q, t_first, retried,
                    y_retry, pg_retry, t)

(* tau_retry taking q from the polygon cut again as well                   *)
tau_retry_new_flow(shape, y, pg, q, t_first) ==
    With(RSub(y, RetryOffset), LAMBDA y_new :
    With(cut_polygon(y_new, shape), LAMBDA pg_new :
        IF pg_new.err # "none"
        THEN CallResult("tau", y, pg_new.err, FALSE, Zero, pg, q, t_first, TRUE,
                        y_new, pg_new, NoT)
        ELSE tau_divide(y, pg, RDiv(RMul(q, first_moment(pg_new)), first_moment(pg)),
                        t_first, TRUE, y_new, pg_new, determine_t(y_new, pg_new))))

(* tau, lines 47-50: y = y - 0.01, cut again, determine t again             *)
tau_retry(shape, y, pg, q, t_first) ==
    With(RSub(y, RetryOffset), LAMBDA y_new :
    With(cut_polygon(y_new, shape), LAMBDA pg_new :
        IF pg_new.err # "none"
        THEN CallResult("tau", y, pg_new.err, FALSE, Zero, pg, q, t_first, TRUE,
                        y_new, pg_new, NoT)
        ELSE tau_divide(y, pg, q, t_first, TRUE, y_new, pg_new,
                        determine_t(y_new, pg_new))))

(* tau, lines 46-47: t = __determine_t(y, pg); if t is None: retry          *)
tau_width(shape, y, pg, q) ==
    With(determine_t(y, pg), LAMBDA t_first :
        IF t_first.err = "none" /\ t_first.none
        THEN tau_retry(shape, y, pg, q, t_first)
        ELSE tau_divide(y, pg, q, t_first, FALSE, y, pg, t_first))

(* lines 41-45 of tau and 26-32 of shear_flow: q = V * Q / I_xx with the    *)
(* I_xx of the uncut shape.  Result << exception, q >>.                    *)
flow_of(V, pg, shape) ==
    With(shape_I_xx(shape), LAMBDA I_xx :
        IF I_xx = Zero THEN << "ZeroDivisionError", Zero >>
        ELSE << "none", RDiv(RMul(V, first_moment(pg)), I_xx) >>)

(* TransverseShear.tau(y)                                                   *)
tau(V, shape, y) ==
    With(cut_polygon(y, shape), LAMBDA pg :
        IF pg.err # "none"
        THEN CallResult("tau", y, pg.err, FALSE, Zero, pg, Zero, NoT, FALSE, y, pg, NoT)
        ELSE With(flow_of(V, pg, shape), LAMBDA f :
                IF f[1] # "none"
                THEN CallResult("tau", y, f[1], FALSE, Zero, pg, Zero, NoT, FALSE, y, pg, NoT)
                ELSE tau_width(shape, y, pg, f[2])))

(* the cut and the flow of shear_flow on a Polygon                          *)
shear_flow_polygon(V, shape, y) ==
    With(cut_polygon(y, shape), LAMBDA pg :
        IF pg.err # "none"
        THEN CallResult("shear_flow", y, pg.err, FALSE, Zero, pg, Zero, NoT, FALSE, y, pg, NoT)
        ELSE With(flow_of(V, pg, shape), LAMBDA f :
                CallResult("shear_flow", y, f[1], f[1] = "none", f[2], pg, f[2], NoT,
                           FALSE, y, pg, NoT)))

(* TransverseShear.shear_flow(y): only a Polygon is handled; for any other  *)
(* shape the method falls off its end and returns None.                    *)
shear_flow(V, shape, y) ==
    IF shape.kind = "Polygon"
    THEN shear_flow_polygon(V, shape, y)
    ELSE CallResult("shear_flow", y, "none", FALSE, Zero, NoPolygon, Zero, NoT,
                    FALSE, y, NoPolygon, NoT)

(***************************************************************************)
(* The sections the model is run on                                        *)
(***************************************************************************)
MaxWidth == 2
MaxHeight == 3
MaxHalfSteps == 9

RectangleShape(w, h) ==
    [SolidShape(Rectangle(R(w), R(h))) EXCEPT
        !.cls = "Rectangle", !.dim.width = R(w), !.dim.height = R(h)]

HShapeShape(h, w, t_w, t_f) ==
    [SolidShape(HShape(R(h), R(w), R(t_w), R(t_f))) EXCEPT
        !.cls = "HShape", !.dim.height = R(h), !.dim.width = R(w),
        !.dim.web_thickness = R(t_w), !.dim.flange_thickness = R(t_f)]

CShapeShape(h, w, t_w, t_f) ==
    [SolidShape(CShape(R(h), R(w), R(t_w), R(t_f))) EXCEPT
        !.cls = "CShape", !.dim.height = R(h), !.dim.width = R(w),
        !.dim.web_thickness = R(t_w), !.dim.flange_thickness = R(t_f)]

HollowRectangleShape(w, h, th) ==
    [HollowRectangle(R(w), R(h), R(th)) EXCEPT
        !.cls = "HollowRectangle", !.dim.width = R(w), !.dim.height = R(h),
        !.dim.thickness = R(th)]

PolygonShape(name, vs) == [SolidShape(Polygon(vs)) EXCEPT !.cls = name]

(* a T section (docs/examples/example_27.py), a U section, a Pi section     *)
(* (docs/examples/example_30.py), a Z section, and polygons with sloped    *)
(* sides                                                                   *)
TShapeVertices ==
    << P2(0, 0), P2(2, 0), P2(2, 2), P2(4, 2), P2(4, 4), P2(-2, 4), P2(-2, 2), P2(0, 2) >>
UShapeVertices ==
    << P2(0, 0), P2(6, 0), P2(6, 6), P2(5, 6), P2(5, 1), P2(1, 1), P2(1, 6), P2(0, 6) >>
PiShapeVertices ==
    << P2(0, 0), P2(0, -2), P2(1, -2), P2(1, -4), P2(2, -4), P2(2, -2), P2(4, -2),
       P2(4, -4), P2(5, -4), P2(5, -2), P2(6, -2), P2(6, 0) >>
ZShapeVertices ==
    << P2(0, 0), P2(2, 0), P2(2, -2), P2(3, -2), P2(3, 2), P2(1, 2), P2(1, 4), P2(0, 4) >>
DiamondVertices == << P2(2, 0), P2(0, 2), P2(-2, 0), P2(0, -2) >>
TriangleVertices == << P2(-4, -3), P2(1, 1), P2(-3, 2) >>
TriangleLowVertices == << P2(-2, -2), P2(2, -3), P2(3, 2) >>
(* a square whose vertex list repeats its first vertex twice at the end    *)
ClosedTwiceVertices ==
    << P2(1, -1), P2(1, 1), P2(-1, 1), P2(-1, -1), P2(1, -1), P2(1, -1) >>
(* an H section whose flanges widen in two steps 0.01 apart, so that the   *)
(* height 0.01 below the flange boundary y = 1 is a boundary as well       *)
StepHeight == Rat(99, 100)
DoubleFlangeVertices ==
    << P2(3, -2), P2(3, -1), P2(2, -1), Pt(R(2), RNeg(StepHeight)),
       Pt(R(1), RNeg(StepHeight)), Pt(R(1), StepHeight), Pt(R(2), StepHeight),
       P2(2, 1), P2(3, 1), P2(3, 2),
       P2(-3, 2), P2(-3, 1), P2(-2, 1), Pt(R(-2), StepHeight),
       Pt(R(-1), StepHeight), Pt(R(-1), RNeg(StepHeight)), Pt(R(-2), RNeg(StepHeight)),
       P2(-2, -1), P2(-3, -1), P2(-3, -2) >>

ShapeSet ==
    {RectangleShape(w, h) : w \in 1 .. MaxWidth, h \in 1 .. MaxHeight}
    \cup {HShapeShape(8, 6, 2, 2), HShapeShape(8, 3, 2, 2), HShapeShape(6, 4, 2, 1)}
    \cup {HollowRectangleShape(6, 8, 1), HollowRectangleShape(4, 4, 1)}
    \cup {CShapeShape(8, 4, 1, 1)}
    \cup {PolygonShape("TShape", TShapeVertices), PolygonShape("UShape", UShapeVertices),
          PolygonShape("PiShape", PiShapeVertices), PolygonShape("ZShape", ZShapeVertices),
          PolygonShape("Diamond", DiamondVertices),
          PolygonShape("Triangle", TriangleVertices),
          PolygonShape("TriangleLow", TriangleLowVertices),
          PolygonShape("DoubleFlange", DoubleFlangeVertices),
          PolygonShape("ClosedTwice", ClosedTwiceVertices)}
    \cup {[HollowPolygon(Rectangle(R(6), R(8)), Polygon(DiamondVertices))
              EXCEPT !.cls = "HollowDiamond"]}

(* shear forces (signed) and cut heights (multiples of 1/2)                 *)
ForceSet == {R(-2), R(1)}
HeightSet == {Rat(k, 2) : k \in -MaxHalfSteps .. MaxHalfSteps}

(***************************************************************************)
(* State.  shape and V are the fields of a TransverseShear object, obj is  *)
(* "new" before __init__ has run, "ready" after it returned and "failed"   *)
(* when it raised; tau_max is the field __init__ sets.  call is the call   *)
(* that has just ended (NoCall when the caller has taken its result).      *)
(***************************************************************************)
(* heap holds the Polygon and HollowPolygon objects of a program that       *)
(* shares them between callers (no object: NoHeap); section is a Section   *)
(* object (NoSection where there is none), line_segment a LineSegment      *)
(* object on its own (NoneSegment where there is none).                    *)
VARIABLES shape, V, obj, tau_max, call, heap, section, line_segment
vars == << shape, V, obj, tau_max, call, heap, section, line_segment >>

NoHeap == [polys |-> << >>, hollows |-> << >>]
NoSection == [exists |-> FALSE]

NoCall ==
    CallResult("none", Zero, "none", FALSE, Zero, NoPolygon, Zero, NoT,
               FALSE, Zero, NoPolygon, NoT)

Init ==
    /\ shape \in ShapeSet
    /\ V \in ForceSet
    /\ obj = "new"
    /\ tau_max = Zero
    /\ call = NoCall
    /\ heap = NoHeap
    /\ section = NoSection
    /\ line_segment = NoneSegment

(* TransverseShear.__init__: tau_max = tau(0)                               *)
Construct ==
    /\ obj = "new" /\ call = NoCall
    /\ call' = [tau(V, shape, Zero) EXCEPT !.op = "__init__"]
    /\ obj' = IF call'.err = "none" THEN "ready" ELSE "failed"
    /\ tau_max' = call'.value
    /\ UNCHANGED << shape, V, heap, section, line_segment >>

(* tau keeping its last result in tau_max                                  *)
Tau_caching(y) ==
    /\ obj = "ready" /\ call = NoCall
    /\ call' = tau(V, shape, y)
    /\ tau_max' = call'.value
    /\ UNCHANGED << shape, V, obj, heap, section, line_segment >>

(* TransverseShear.tau(y)                                                   *)
Tau(y) ==
    /\ obj = "ready" /\ call = NoCall
    /\ call' = tau(V, shape, y)
    /\ UNCHANGED << shape, V, obj, tau_max, heap, section, line_segment >>

(* TransverseShear.shear_flow(y)                                            *)
ShearFlow(y) ==
    /\ obj = "ready" /\ call = NoCall
    /\ call' = shear_flow(V, shape, y)
    /\ UNCHANGED << shape, V, obj, tau_max, heap, section, line_segment >>

(* the static method _cut_polygon(y, shape), called without an object       *)
CutPolygon(y) ==
    /\ obj = "new" /\ call = NoCall
    /\ call' = With(cut_polygon(y, shape), LAMBDA pg :
                    CallResult("cut_polygon", y, pg.err, pg.err = "none", Zero, pg,
                               Zero, NoT, FALSE, y, pg, NoT))
    /\ UNCHANGED << shape, V, obj, tau_max, heap, section, line_segment >>

(* the static method __determine_t(y, pg) on the polygon just cut           *)
DetermineT ==
    /\ call.op = "cut_polygon" /\ call.err = "none"
    /\ call' = With(determine_t(call.y, call.pg), LAMBDA d :
                    [call EXCEPT !.op = "determine_t", !.err = d.err,
                                 !.returned = (d.err = "none" /\ ~d.none),
                                 !.t_first = d, !.t = d])
    /\ UNCHANGED << shape, V, obj, tau_max, heap, section, line_segment >>

(* the caller takes the result (or the exception) of the call               *)
Return ==
    /\ call # NoCall
    /\ call' = NoCall
    /\ UNCHANGED << shape, V, obj, tau_max, heap, section, line_segment >>

Next ==
    \/ Construct
    \/ \E y \in HeightSet : Tau(y)
    \/ \E y \in HeightSet : ShearFlow(y)
    \/ \E y \in HeightSet : CutPolygon(y)
    \/ DetermineT
    \/ Return

Spec == Init /\ [][Next]_vars

(***************************************************************************)
(* The geometry of the shapes on its own: Polygon, Rectangle and           *)
(* HollowPolygon are constructed from vertex lists and their properties    *)
(* are read.  shape is the object last constructed, call the result of the *)
(* last operation; a constructor that raises leaves shape as it was.       *)
(***************************************************************************)
Rotate(vs, n) == [i \in 1 .. Len(vs) |-> vs[((i - 1 + n) % Len(vs)) + 1]]
Rotations(vs) == {Rotate(vs, n) : n \in 0 .. Len(vs) - 1}

RectangleRing(w, h) == << P2(0, 0), P2(w, 0), P2(w, h), P2(0, h) >>
ParallelogramVertices == << P2(0, 0), P2(4, 0), P2(6, 4), P2(2, 4) >>
SmallParallelogramVertices == << P2(0, 0), P2(1, 0), P2(2, 1), P2(1, 1) >>
LShapeVertices == << P2(0, 0), P2(3, 0), P2(3, 1), P2(1, 1), P2(1, 4), P2(0, 4) >>

(* vertex lists that enclose no area: one and two vertices, collinear      *)
(* vertices, one vertex repeated, a ring that runs back over itself        *)
DegenerateSet ==
    { << P2(1, 1) >>,
      << P2(0, 0), P2(2, 1) >>,
      << P2(0, 0), P2(1, 1), P2(2, 2) >>,
      << P2(1, 2), P2(1, 2), P2(1, 2) >>,
      << P2(0, 0), P2(2, 0), P2(2, 0), P2(0, 0) >> }

(* a square with one vertex given twice in a row                           *)
DuplicateVertexRing == << P2(0, 0), P2(2, 0), P2(2, 0), P2(2, 2), P2(0, 2) >>

PolygonInputSet ==
    Rotations(TriangleVertices) \cup Rotations(ZShapeVertices)
    \cup Rotations(ParallelogramVertices) \cup Rotations(LShapeVertices)
    \cup {RectangleRing(w, h) : w \in 1 .. MaxWidth, h \in 1 .. MaxHeight}
    \cup DegenerateSet \cup {DuplicateVertexRing}

(* outer and inner vertex lists; in the last three the inner polygon is    *)
(* as large as the outer one or larger                                     *)
HollowInputSet ==
    { << RectangleRing(4, 4), RectangleRing(2, 2) >>,
      << RectangleRing(10, 20), RectangleRing(8, 18) >>,
      << ParallelogramVertices, RectangleRing(1, 1) >>,
      << RectangleRing(4, 6), SmallParallelogramVertices >>,
      << RectangleRing(2, 2), RectangleRing(2, 2) >>,
      << RectangleRing(2, 2), RectangleRing(1, 4) >>,
      << RectangleRing(1, 1), RectangleRing(2, 2) >> }

ShiftTargetSet == {P2(1, -2)}

NoShape == [SolidShape(NoPolygon) EXCEPT !.kind = "None", !.cls = "None"]

GeomResult(op, input, e, value) ==
    [op |-> op, input |-> input, err |-> e, returned |-> (e = "none"),
     value |-> value]

GeomInit ==
    /\ shape = NoShape
    /\ V = Zero
    /\ obj = "new"
    /\ tau_max = Zero
    /\ call = NoCall
    /\ heap = NoHeap
    /\ section = NoSection
    /\ line_segment = NoneSegment

(* Polygon(vertices)                                                       *)
NewPolygon(vs) ==
    /\ call' = GeomResult("Polygon", << vs >>, Polygon(vs).err, Zero)
    /\ shape' = IF call'.err = "none" THEN SolidShape(Polygon(vs)) ELSE shape
    /\ UNCHANGED << V, obj, tau_max, heap, section, line_segment >>

(* Rectangle(width, height)                                                *)
NewRectangle(w, h) ==
    /\ call' = GeomResult("Rectangle", << R(w), R(h) >>, Rectangle(R(w), R(h)).err, Zero)
    /\ shape' = IF call'.err = "none" THEN RectangleShape(w, h) ELSE shape
    /\ UNCHANGED << V, obj, tau_max, heap, section, line_segment >>

(* HollowPolygon(Polygon(outer), Polygon(inner))                           *)
NewHollowPolygon(outer, inner) ==
    /\ call' = GeomResult("HollowPolygon", << outer, inner >>, "none", Zero)
    /\ shape' = HollowPolygon(Polygon(outer), Polygon(inner))
    /\ UNCHANGED << V, obj, tau_max, heap, section, line_segment >>

(* polygon.shift(x, y)                                                     *)
Shift(x, y) ==
    /\ shape.kind = "Polygon"
    /\ shape' = [shape EXCEPT !.pg = shift(@, x, y)]
    /\ call' = GeomResult("shift", << x, y >>, "none", Zero)
    /\ UNCHANGED << V, obj, tau_max, heap, section, line_segment >>

(* the properties of the shape                                             *)
Area ==
    /\ shape # NoShape
    /\ call' = GeomResult("area", << >>, "none", shape_area(shape))
    /\ UNCHANGED << shape, V, obj, tau_max, heap, section, line_segment >>

Centroid ==
    /\ shape # NoShape
    /\ call' = GeomResult("centroid", << >>, "none", shape_centroid(shape))
    /\ UNCHANGED << shape, V, obj, tau_max, heap, section, line_segment >>

MomentOfInertiaXX ==
    /\ shape # NoShape
    /\ call' = GeomResult("moment_of_inertia_xx", << >>, "none", shape_I_xx(shape))
    /\ UNCHANGED << shape, V, obj, tau_max, heap, section, line_segment >>

MomentOfInertiaYY ==
    /\ shape # NoShape
    /\ call' = GeomResult("moment_of_inertia_yy", << >>, "none", shape_I_yy(shape))
    /\ UNCHANGED << shape, V, obj, tau_max, heap, section, line_segment >>

ProductOfInertia ==
    /\ shape # NoShape
    /\ call' = GeomResult("product_of_inertia", << >>, "none", shape_I_xy(shape))
    /\ UNCHANGED << shape, V, obj, tau_max, heap, section, line_segment >>

PrincipalMomentsOfInertia ==
    /\ shape # NoShape
    /\ call' = GeomResult("principal_moments_of_inertia", << >>, "none",
                          shape_principal(shape))
    /\ UNCHANGED << shape, V, obj, tau_max, heap, section, line_segment >>

GeomNext ==
    \/ \E vs \in PolygonInputSet : NewPolygon(vs)
    \/ \E w \in 1 .. MaxWidth, h \in 1 .. MaxHeight : NewRectangle(w, h)
    \/ \E p \in HollowInputSet : NewHollowPolygon(p[1], p[2])
    \/ \E p \in ShiftTargetSet : Shift(p[1], p[2])
    \/ Area
    \/ Centroid
    \/ MomentOfInertiaXX
    \/ MomentOfInertiaYY
    \/ ProductOfInertia
    \/ PrincipalMomentsOfInertia

GeomSpec == GeomInit /\ [][GeomNext]_vars

(***************************************************************************)
(* Polygon objects shared between callers.  heap.polys are the Polygon     *)
(* objects in the order of their creation, heap.hollows the HollowPolygon  *)
(* objects, each holding references (indices into heap.polys) to the two   *)
(* Polygon objects it was given.  HollowPolygon.__init__ shifts the inner  *)
(* Polygon object in place.                                                *)
(***************************************************************************)
MaxPolygons == 3
MaxHollows == 2

HeapRingSet == {RectangleRing(4, 4), RectangleRing(2, 2), ParallelogramVertices}

HeapInit ==
    /\ shape = NoShape
    /\ V = Zero
    /\ obj = "new"
    /\ tau_max = Zero
    /\ call = NoCall
    /\ heap = NoHeap
    /\ section = NoSection
    /\ line_segment = NoneSegment

(* p = Polygon(vertices)                                                   *)
HeapNewPolygon(vs) ==
    /\ Len(heap.polys) < MaxPolygons
    /\ heap' = [heap EXCEPT !.polys = Append(@, Polygon(vs))]
    /\ call' = GeomResult("Polygon", << vs >>, "none", Len(heap'.polys))
    /\ UNCHANGED << shape, V, obj, tau_max, section, line_segment >>

(* HollowPolygon(o, i) on the o-th and the i-th Polygon object: the inner  *)
(* object itself is shifted                                                *)
HeapNewHollowPolygon(o, i) ==
    /\ Len(heap.hollows) < MaxHollows
    /\ o \in 1 .. Len(heap.polys) /\ i \in 1 .. Len(heap.polys)
    /\ heap' = [polys |-> [heap.polys EXCEPT
                              ![i] = shift(@, heap.polys[o].x_c, heap.polys[o].y_c)],
                hollows |-> Append(heap.hollows,
                                   [outer_polygon |-> o, inner_polygon |-> i])]
    /\ call' = GeomResult("HollowPolygon", << o, i >>, "none", Len(heap'.hollows))
    /\ UNCHANGED << shape, V, obj, tau_max, section, line_segment >>

(* h.centroid of the k-th HollowPolygon object                             *)
HeapCentroid(k) ==
    /\ k \in 1 .. Len(heap.hollows)
    /\ call' = GeomResult("centroid", << k >>, "none",
                          << heap.polys[heap.hollows[k].outer_polygon].x_c,
                             heap.polys[heap.hollows[k].outer_polygon].y_c >>)
    /\ UNCHANGED << shape, V, obj, tau_max, heap, section, line_segment >>

HeapNext ==
    \/ \E vs \in HeapRingSet : HeapNewPolygon(vs)
    \/ \E o \in 1 .. MaxPolygons, i \in 1 .. MaxPolygons : HeapNewHollowPolygon(o, i)
    \/ \E k \in 1 .. MaxHollows : HeapCentroid(k)

HeapSpec == HeapInit /\ [][HeapNext]_vars

(***************************************************************************)
(* A LineSegment on its own: line_segment is constructed from two points   *)
(* of a grid, horizontal, vertical, slanted or of length zero, and x(y),   *)
(* y(x) and contains(point) are called on it.  call holds the result of    *)
(* the last call: none tells that None was returned.                       *)
(***************************************************************************)
MaxCoord == 2

GridPoints == {P2(x, y) : x \in 0 .. MaxCoord, y \in 0 .. MaxCoord}
ProbeCoords == {R(k) : k \in -1 .. MaxCoord + 1}
ProbePoints == {Pt(x, y) : x \in ProbeCoords, y \in ProbeCoords}

SegmentResult(op, arg, none, value) ==
    [op |-> op, arg |-> arg, none |-> none, value |-> value]

SegmentInit ==
    /\ line_segment \in {LineSegment(p1, p2, 1) : p1 \in GridPoints, p2 \in GridPoints}
    /\ call = SegmentResult("none", Zero, FALSE, Zero)
    /\ shape = NoShape
    /\ V = Zero
    /\ obj = "new"
    /\ tau_max = Zero
    /\ heap = NoHeap
    /\ section = NoSection

(* LineSegment.x(y)                                                         *)
SegmentX(y) ==
    /\ call' = IF seg_has_x(line_segment, y)
               THEN SegmentResult("x", y, FALSE, seg_x(line_segment, y))
               ELSE SegmentResult("x", y, TRUE, Zero)
    /\ UNCHANGED << shape, V, obj, tau_max, heap, section, line_segment >>

(* LineSegment.y(x)                                                         *)
SegmentY(x) ==
    /\ call' = IF seg_has_y(line_segment, x)
               THEN SegmentResult("y", x, FALSE, seg_y(line_segment, x))
               ELSE SegmentResult("y", x, TRUE, Zero)
    /\ UNCHANGED << shape, V, obj, tau_max, heap, section, line_segment >>

(* LineSegment.contains(point)                                              *)
SegmentContains(point) ==
    /\ call' = SegmentResult("contains", point, FALSE, contains(line_segment, point))
    /\ UNCHANGED << shape, V, obj, tau_max, heap, section, line_segment >>

SegmentNext ==
    \/ \E y \in ProbeCoords : SegmentX(y)
    \/ \E x \in ProbeCoords : SegmentY(x)
    \/ \E point \in ProbePoints : SegmentContains(point)

SegmentSpec == SegmentInit /\ [][SegmentNext]_vars

(***************************************************************************)
(* A Section object: the loads N, V, M_z, M_y, T it holds (None until set) *)
(* and the stress objects built from them.  A stress object is a record of *)
(* the constructor's arguments and the stress computed from them; Bending  *)
(* and Torsion are kept as their arguments (a Torsion on a shape that is   *)
(* no Circle or Annulus has tau_max None).  call is the last call: a       *)
(* setter with its arguments, or an accessor with what it returned or      *)
(* raised.                                                                 *)
(***************************************************************************)
MaxLoad == 2

LoadSet == {R(k) : k \in 0 .. MaxLoad}

None == [none |-> TRUE, v |-> Zero]
Some(v) == [none |-> FALSE, v |-> v]

NoStress == [none |-> TRUE]

(* AxialLoading(N, shape): sigma = N / A                                    *)
AxialLoading(N, sh) ==
    [none |-> FALSE, N |-> N, sigma |-> RDiv(N, shape_area(sh))]

(* SimpleShear(V, shape): tau = V / A                                       *)
SimpleShear(V_, sh) ==
    [none |-> FALSE, V |-> V_, tau |-> RDiv(V_, shape_area(sh))]

(* TransverseShear(V, shape): tau_max = tau(0)                              *)
TransverseShear(V_, sh) ==
    [none |-> FALSE, V |-> V_, tau_max |-> tau(V_, sh, Zero).value]

(* Torsion(T, shape) on a Polygon: __calc_max_shear_stress returns None     *)
Torsion(T, sh) == [none |-> FALSE, T |-> T, tau_max |-> None]

(* Bending((M_z, M_y), shape); Bending(M_z, shape) is Bending((M_z, 0))     *)
Bending(M_z, M_y, sh) == [none |-> FALSE, M_z |-> M_z, M_y |-> M_y]

(* Section.__init__                                                         *)
Section(sh) ==
    [exists |-> TRUE, shape |-> sh,
     N |-> None, V |-> None, M_z |-> None, M_y |-> None, T |-> None,
     axial |-> NoStress, simple_shear |-> NoStress, torsion |-> NoStress,
     transverse_shear |-> NoStress, bending |-> NoStress]

set_normal_force(s, N) ==
    IF N # Zero
    THEN [s EXCEPT !.N = Some(N), !.axial = AxialLoading(N, s.shape)]
    ELSE s

set_shear_force(s, V_) ==
    IF V_ # Zero
    THEN [s EXCEPT !.V = Some(V_), !.simple_shear = SimpleShear(V_, s.shape),
                   !.transverse_shear = TransverseShear(V_, s.shape)]
    ELSE s

(* M_y is None (the default) or Some(value)                                 *)
set_bending_moment(s, M_z, M_y) ==
    With([s EXCEPT !.M_z = IF M_z # Zero THEN Some(M_z) ELSE @,
                   !.M_y = IF ~M_y.none /\ M_y.v # Zero THEN Some(M_y.v) ELSE @],
         LAMBDA u :
            IF ~u.M_z.none /\ ~u.M_y.none
            THEN [u EXCEPT !.bending = Bending(u.M_z.v, u.M_y.v, u.shape)]
            ELSE IF ~u.M_z.none
            THEN [u EXCEPT !.bending = Bending(u.M_z.v, Zero, u.shape)]
            ELSE IF ~u.M_y.none
            THEN [u EXCEPT !.bending = Bending(Zero, u.M_y.v, u.shape)]
            ELSE u)

set_torque(s, T) ==
    IF T # Zero
    THEN [s EXCEPT !.T = Some(T), !.torsion = Torsion(T, s.shape)]
    ELSE s

(* F_i = << x, y >>, M_i = << x, y, z >>                                    *)
set_internal_loadings(s, F_i, M_i) ==
    set_torque(
        set_bending_moment(
            set_shear_force(set_normal_force(s, F_i[1]), F_i[2]),
            M_i[3], Some(M_i[2])),
        M_i[1])

(* what an accessor gives: the stress it returns (None for no value) or    *)
(* the ValueError it raises                                                *)
Returned(stress) == [err |-> "none", stress |-> stress]
Raised(e) == [err |-> e, stress |-> None]

sigma_N_avg(s) ==
    IF ~s.N.none THEN Returned(Some(s.axial.sigma)) ELSE Raised("ValueError")
tau_V_avg(s) ==
    IF ~s.V.none THEN Returned(Some(s.simple_shear.tau)) ELSE Raised("ValueError")
tau_V_max(s) ==
    IF ~s.V.none THEN Returned(Some(s.transverse_shear.tau_max)) ELSE Raised("ValueError")
tau_T_max(s) ==
    IF ~s.T.none THEN Returned(s.torsion.tau_max) ELSE Raised("ValueError")
(* the sigma_max of a Bending object is given as the moments it was built  *)
(* from; with M_y set and M_z never set, bending exists but is not read    *)
sigma_M_max(s) ==
    IF ~s.M_z.none THEN Returned(Some(<< s.bending.M_z, s.bending.M_y >>))
    ELSE Raised("ValueError")

SectionShapeSet == {RectangleShape(1, 2), RectangleShape(2, 3)}

(* the internal loadings of two cuts of a beam: one with every component,  *)
(* one with a normal force only, and the unloaded cut                      *)
InternalLoadingSet ==
    { << << R(1), R(2) >>, << R(1), R(1), R(2) >> >>,
      << << R(2), Zero >>, << Zero, Zero, Zero >> >>,
      << << Zero, Zero >>, << Zero, Zero, Zero >> >> }

SectionCall(op, args, result) == [op |-> op, args |-> args, result |-> result]

SectionInit ==
    /\ shape \in SectionShapeSet
    /\ section = Section(shape)
    /\ call = SectionCall("none", << >>, Raised("none"))
    /\ V = Zero
    /\ obj = "new"
    /\ tau_max = Zero
    /\ heap = NoHeap
    /\ line_segment = NoneSegment

SetInternalLoadings(F_i, M_i) ==
    /\ section' = set_internal_loadings(section, F_i, M_i)
    /\ call' = SectionCall("set_internal_loadings", << F_i, M_i >>, Raised("none"))
    /\ UNCHANGED << shape, V, obj, tau_max, heap, line_segment >>

SetNormalForce(N) ==
    /\ section' = set_normal_force(section, N)
    /\ call' = SectionCall("set_normal_force", << N >>, Raised("none"))
    /\ UNCHANGED << shape, V, obj, tau_max, heap, line_segment >>

SetShearForce(V_) ==
    /\ section' = set_shear_force(section, V_)
    /\ call' = SectionCall("set_shear_force", << V_ >>, Raised("none"))
    /\ UNCHANGED << shape, V, obj, tau_max, heap, line_segment >>

SetBendingMoment(M_z, M_y) ==
    /\ section' = set_bending_moment(section, M_z, M_y)
    /\ call' = SectionCall("set_bending_moment", << M_z, M_y >>, Raised("none"))
    /\ UNCHANGED << shape, V, obj, tau_max, heap, line_segment >>

SetTorque(T) ==
    /\ section' = set_torque(section, T)
    /\ call' = SectionCall("set_torque", << T >>, Raised("none"))
    /\ UNCHANGED << shape, V, obj, tau_max, heap, line_segment >>

SigmaNAvg ==
    /\ call' = SectionCall("sigma_N_avg", << >>, sigma_N_avg(section))
    /\ UNCHANGED << shape, V, obj, tau_max, heap, section, line_segment >>

TauVAvg ==
    /\ call' = SectionCall("tau_V_avg", << >>, tau_V_avg(section))
    /\ UNCHANGED << shape, V, obj, tau_max, heap, section, line_segment >>

TauVMax ==
    /\ call' = SectionCall("tau_V_max", << >>, tau_V_max(section))
    /\ UNCHANGED << shape, V, obj, tau_max, heap, section, line_segment >>

TauTMax ==
    /\ call' = SectionCall("tau_T_max", << >>, tau_T_max(section))
    /\ UNCHANGED << shape, V, obj, tau_max, heap, section, line_segment >>

SigmaMMax ==
    /\ call' = SectionCall("sigma_M_max", << >>, sigma_M_max(section))
    /\ UNCHANGED << shape, V, obj, tau_max, heap, section, line_segment >>

SectionNext ==
    \/ \E L \in InternalLoadingSet : SetInternalLoadings(L[1], L[2])
    \/ \E N \in LoadSet : SetNormalForce(N)
    \/ \E V_ \in LoadSet : SetShearForce(V_)
    \/ \E M_z \in LoadSet, M_y \in {None} \cup {Some(m) : m \in LoadSet} :
           SetBendingMoment(M_z, M_y)
    \/ \E T \in LoadSet : SetTorque(T)
    \/ SigmaNAvg
    \/ TauVAvg
    \/ TauVMax
    \/ TauTMax
    \/ SigmaMMax

SectionSpec == SectionInit /\ [][SectionNext]_vars

(***************************************************************************)
(* Properties                                                              *)
(***************************************************************************)
(* the centroid-relative vertices that bound the section: the polygon's,   *)
(* or the outer ring's                                                     *)
section_vertices(sh) ==
    IF sh.kind = "Polygon" THEN vertices(sh.pg) ELSE vertices(sh.outer_polygon)

(* y lies strictly between the lowest and the highest point of the section *)
StrictlyInside(sh, y) ==
    With(section_vertices(sh), LAMBDA v :
        /\ RLt(RMinSeq([i \in 1 .. Len(v) |-> PY(v[i])]), y)
        /\ RLt(y, RMaxSeq([i \in 1 .. Len(v) |-> PY(v[i])])))

(* a cut polygon is valid for the cut at y: it was built, its area is      *)
(* positive and all its vertices are on the beyond-y side of the cut line  *)
ValidFragment(y, pg) ==
    /\ pg.err = "none"
    /\ RGt(pg.A, Zero)
    /\ \A i \in 1 .. Len(pg.pts) : is_beyond(y, PY(pg.pts[i]))

(* the ambiguity retry triggers at y: the width of the cut at y is None    *)
IsAmbiguous(y, pg) == pg.err = "none" /\ determine_t(y, pg).none

(* C1: for every section and every height y strictly between the lowest   *)
(* and the highest point of the section, except a height where the width   *)
(* is ambiguous, _cut_polygon(y) returns a valid polygon (positive area,   *)
(* every vertex on the beyond-y side) and __determine_t returns a width    *)
(* that is strictly positive.                                              *)
C1_CutIsValidAndWidthPositive ==
    (/\ call.op \in {"cut_polygon", "determine_t"}
     /\ StrictlyInside(shape, call.y)
     /\ ~IsAmbiguous(call.y, call.pg))
    => /\ ValidFragment(call.y, call.pg)
       /\ call.op = "determine_t"
            => call.err = "none" /\ RGt(call.t.t, Zero)

(* C2: for every Rectangle of width w and height h, the cut at y = 0 made  *)
(* by tau (in __init__ and in a later call) gives the cut width t = w and  *)
(* the first moment Q = A_cut * |y_c_cut| = (w*h/2) * (h/4), which is the  *)
(* Q the shear flow q = V*Q/I_xx is computed from.                         *)
C2_RectangleCutAtCentroid ==
    (/\ shape.cls = "Rectangle"
     /\ call.op \in {"__init__", "tau"}
     /\ call.y = Zero)
    => With(RMul(RDiv(RMul(shape.dim.width, shape.dim.height), R(2)),
                 RDiv(shape.dim.height, R(4))), LAMBDA Q :
            /\ call.err = "none"
            /\ ~call.retried
            /\ call.t.t = shape.dim.width
            /\ RMul(call.pg.A, RAbs(call.pg.y_c)) = Q
            /\ call.q = RDiv(RMul(V, Q), shape_I_xx(shape)))

(* a 2 x 3 rectangle cut at y = 0 by tau after construction, width 2       *)
C2_Witness ==
    /\ shape.cls = "Rectangle"
    /\ shape.dim.width = R(2) /\ shape.dim.height = R(3)
    /\ call.op = "tau" /\ call.y = Zero
    /\ call.returned /\ call.t.t = R(2)

(* the closed-form shear stress of an H section: V * Q / (I_xx * t)        *)
closed_form_tau(Q, t) == RDiv(RMul(V, Q), RMul(shape_I_xx(shape), t))

(* first moment of one flange about the centroidal axis:                   *)
(* b * t_f * (h - t_f) / 2                                                 *)
flange_moment(d) ==
    RDiv(RMul(RMul(d.width, d.flange_thickness), RSub(d.height, d.flange_thickness)),
         R(2))

(* first moment of the half web: t_w * (h/2 - t_f)^2 / 2                   *)
half_web_moment(d) ==
    With(RSub(RDiv(d.height, R(2)), d.flange_thickness), LAMBDA c :
        RDiv(RMul(d.web_thickness, RMul(c, c)), R(2)))

(* the height of the upper flange/web junction: h/2 - t_f                  *)
junction_height(d) == RSub(RDiv(d.height, R(2)), d.flange_thickness)

(* C3: for an HShape, tau at y = 0 equals                                  *)
(* V*[b*t_f*(h-t_f)/2 + t_w*(h/2-t_f)^2/2]/(I_xx*t_w), and tau at the      *)
(* junctions y = +(h/2-t_f) and y = -(h/2-t_f) equals                      *)
(* V*[b*t_f*(h-t_f)/2]/(I_xx*t) with t the web thickness or the flange     *)
(* width, so with the sign of the value at the centroid.                   *)
C3_HShapeClosedForm ==
    (shape.cls = "HShape" /\ call.op \in {"__init__", "tau"})
    => /\ call.y = Zero
          => /\ call.returned
             /\ call.value = closed_form_tau(RAdd(flange_moment(shape.dim),
                                                  half_web_moment(shape.dim)),
                                             shape.dim.web_thickness)
       /\ call.y \in {junction_height(shape.dim), RNeg(junction_height(shape.dim))}
          => /\ call.returned
             /\ call.value \in
                  {closed_form_tau(flange_moment(shape.dim), shape.dim.web_thickness),
                   closed_form_tau(flange_moment(shape.dim), shape.dim.width)}

(* C4: on a Polygon as well as on a HollowPolygon, shear_flow(y) that does *)
(* not raise returns a value, and the value is q = V*Q/I_xx with           *)
(* Q = A_cut*|y_c_cut| of the cut at y and I_xx of the uncut shape.        *)
C4_ShearFlowReturnsFlow ==
    (call.op = "shear_flow" /\ call.err = "none")
    => /\ call.returned
       /\ call.pg = cut_polygon(call.y, shape)
       /\ call.value = RDiv(RMul(V, RMul(call.pg.A, RAbs(call.pg.y_c))),
                            shape_I_xx(shape))

(* the width the cut algorithm determines for height y: __determine_t of   *)
(* the cut at y, and when that is None, of the cut at y - 0.01             *)
width_for(sh, y) ==
    With(determine_t(y, cut_polygon(y, sh)), LAMBDA t :
        IF ~t.none THEN t
        ELSE determine_t(RSub(y, RetryOffset), cut_polygon(RSub(y, RetryOffset), sh)))

(* C5: a tau(y) that returns, returns q(y)/t(y): q(y) = V*Q(y)/I_xx with   *)
(* Q(y) of the cut at y, t(y) the width determined for y (after the offset *)
(* retry, the width of the cut at the offset height), for Polygon and      *)
(* HollowPolygon.                                                          *)
C5_TauIsFlowOverWidth ==
    (call.op \in {"__init__", "tau"} /\ call.returned)
    => With(cut_polygon(call.y, shape), LAMBDA pg :
            /\ call.t = width_for(shape, call.y)
            /\ call.value =
                 RDiv(RDiv(RMul(V, RMul(pg.A, RAbs(pg.y_c))), shape_I_xx(shape)),
                      call.t.t))

(* tau returned after the retry on a hollow section                         *)
C5_Witness ==
    /\ call.op = "tau" /\ call.returned /\ call.retried
    /\ shape.kind = "HollowPolygon"
    /\ call.value # Zero

(* the rings of a section as edge lists: the polygon's, or the outer and   *)
(* the inner ring (each counter-clockwise as given)                        *)
outer_edges(sh) ==
    create_polygon_line_segments(IF sh.kind = "Polygon" THEN sh.pg ELSE sh.outer_polygon, 0)
inner_edges(sh) ==
    IF sh.kind = "Polygon" THEN << >> ELSE create_polygon_line_segments(sh.inner_polygon, 0)

(* signed crossing of the horizontal line at height y by an edge of a      *)
(* counter-clockwise ring: +x where the edge rises, -x where it falls      *)
crossing(s, y) ==
    IF RLt(y1(s), y) /\ RLt(y, y2(s)) THEN seg_x(s, y)
    ELSE IF RLt(y2(s), y) /\ RLt(y, y1(s)) THEN RNeg(seg_x(s, y))
    ELSE Zero

(* the width of material the horizontal line at height y runs through (y   *)
(* not the height of a vertex): outer ring minus hole                      *)
material_width(sh, y) ==
    RSub(RSum([i \in 1 .. Len(outer_edges(sh)) |-> crossing(outer_edges(sh)[i], y)]),
         RSum([i \in 1 .. Len(inner_edges(sh)) |-> crossing(inner_edges(sh)[i], y)]))

(* the section has a horizontal edge at height y                           *)
IsBoundaryHeight(sh, y) ==
    \E i \in 1 .. Len(outer_edges(sh) \o inner_edges(sh)) :
        With((outer_edges(sh) \o inner_edges(sh))[i], LAMBDA s :
            is_horizontal(s) /\ y1(s) = y)

(* C6: when y is the height of a horizontal boundary of the section,       *)
(* above or below the centroid, the width tau(y) divides by is the width   *)
(* of the material just above or just below that height (the cut at        *)
(* y + eps or y - eps).                                                    *)
C6_BoundaryUsesOneSidedWidth ==
    (/\ call.op \in {"__init__", "tau"} /\ call.returned
     /\ StrictlyInside(shape, call.y)
     /\ IsBoundaryHeight(shape, call.y))
    => call.t.t \in {material_width(shape, RAdd(call.y, RetryOffset)),
                     material_width(shape, RSub(call.y, RetryOffset))}

(* the horizontal edges of a cut polygon that lie on the cut line y        *)
cut_edges(y, pg) ==
    SelectSeq(create_polygon_line_segments(pg, 0),
              LAMBDA s : is_horizontal(s) /\ RAdd(y1(s), pg.y_c) = y)

(* several edges that join end to end into one run                         *)
IsConnectedRun(e) ==
    /\ Len(e) > 1
    /\ RSum([i \in 1 .. Len(e) |-> length(e[i])])
         = RSub(RMaxSeq([i \in 1 .. Len(e) |-> e[i].x_max]),
                RMinSeq([i \in 1 .. Len(e) |-> e[i].x_min]))

(* C7: when the horizontal edges at the cut height join into one run, for  *)
(* a cut above and for a cut below the centroid, the width is reported     *)
(* ambiguous (None), and tau then cuts again at the height moved away from *)
(* the centroid: y + eps when y >= 0, y - eps when y < 0.                  *)
C7_RetryAwayFromCentroid ==
    (call.op \in {"__init__", "tau"} /\ call.pg.err = "none" /\ call.q # Zero)
    => /\ IsConnectedRun(cut_edges(call.y, call.pg)) => call.t_first.none
       /\ call.retried
            => call.y_retry = IF RGe(call.y, Zero) THEN RAdd(call.y, RetryOffset)
                              ELSE RSub(call.y, RetryOffset)

(* some two of the edges are collinear with overlapping x-intervals        *)
HasOverlap(e) ==
    \E i \in 1 .. Len(e) : \E k \in 1 .. Len(e) : i # k /\ coincide(e[i], e[k])

(* longest edge minus the others                                           *)
net_width(e) ==
    With(RMaxSeq([i \in 1 .. Len(e) |-> length(e[i])]), LAMBDA l_max :
        RSub(RMul(R(2), l_max), RSum([i \in 1 .. Len(e) |-> length(e[i])])))

(* C8: when several horizontal edges of the fragment at the cut height     *)
(* overlap, then above the centroid (y >= 0) as below it (y < 0)           *)
(* __determine_t returns the longest length minus the sum of the others.   *)
C8_OverlapNetWidth ==
    (/\ call.op = "determine_t" /\ call.err = "none"
     /\ HasOverlap(cut_edges(call.y, call.pg))
     /\ ~IsConnectedRun(cut_edges(call.y, call.pg)))
    => /\ ~call.t.none
       /\ call.t.t = net_width(cut_edges(call.y, call.pg))

(* no two of the edges share a point                                       *)
PairwiseDisjoint(e) ==
    \A i \in 1 .. Len(e) : \A k \in 1 .. Len(e) :
        i # k => RLt(e[i].x_max, e[k].x_min) \/ RLt(e[k].x_max, e[i].x_min)

NoHorizontalSegment ==
    /\ call.op \in {"determine_t", "tau", "__init__"}
    /\ call.pg_retry.err = "none"
    /\ horizontal_segments_of(call.pg_retry) = << >>

OneRetryAndNoStressFromNone ==
    /\ call.y_retry = IF call.retried THEN RSub(call.y, RetryOffset) ELSE call.y
    /\ call.retried => call.t_first.none
    /\ call.returned => call.t.err = "none" /\ ~call.t.none

(* the width is still None after the retry                                 *)
StillIndeterminate == call.retried /\ call.t.err = "none" /\ call.t.none

(* C11: tau retries at most once, and when the width is still              *)
(* indeterminate after the retry the call ends in a geometry error and     *)
(* returns no stress.                                                      *)
C11_IndeterminateIsGeometryError ==
    (call.op \in {"__init__", "tau"})
    => /\ OneRetryAndNoStressFromNone
       /\ StillIndeterminate => call.err = "GeometryError" /\ ~call.returned

(* y lies in the closed interval from the lowest to the highest point of   *)
(* the section                                                             *)
WithinExtent(sh, y) ==
    With(section_vertices(sh), LAMBDA v :
        /\ RLe(RMinSeq([i \in 1 .. Len(v) |-> PY(v[i])]), y)
        /\ RLe(y, RMaxSeq([i \in 1 .. Len(v) |-> PY(v[i])])))

(* C12: tau(y) returns a stress without raising for every y from y_min to  *)
(* y_max of the section, the two extreme fibres and the height of every    *)
(* vertex included.                                                        *)
C12_TauReturnsOverWholeHeight ==
    (call.op = "tau" /\ WithinExtent(shape, call.y))
    => call.err = "none" /\ call.returned

(***************************************************************************)
(* Properties of the geometry                                              *)
(***************************************************************************)
(* the ring of a vertex list, closed as Polygon.__init__ closes it         *)
closed_ring(vs) == IF vs[1] # vs[Len(vs)] THEN Append(vs, vs[1]) ELSE vs

(* the area enclosed by a closed ring, by the trapezoid formula            *)
(* A = 1/2 sum (x_i - x_{i+1}) (y_i + y_{i+1})                              *)
ring_area(pts) ==
    RDiv(RSum([i \in 1 .. Len(pts) - 1 |->
                  RMul(RSub(pts[i][1], pts[i + 1][1]),
                       RAdd(pts[i][2], pts[i + 1][2]))]), R(2))

(* the product of inertia of a closed ring about the point c, by the       *)
(* triangle fan from c: each edge (p, q) contributes                       *)
(* k / 24 * (2 px py + px qy + qx py + 2 qx qy), with p and q relative to c *)
ring_product_of_inertia(pts, c) ==
    RDiv(RSum([i \in 1 .. Len(pts) - 1 |->
        With(<< RSub(pts[i][1], c[1]), RSub(pts[i][2], c[2]),
                RSub(pts[i + 1][1], c[1]), RSub(pts[i + 1][2], c[2]) >>, LAMBDA e :
            RMul(RSub(RMul(e[1], e[4]), RMul(e[3], e[2])),
                 RAdd(RAdd(RMul(R(2), RMul(e[1], e[2])), RMul(e[1], e[4])),
                      RAdd(RMul(e[3], e[2]), RMul(R(2), RMul(e[3], e[4]))))))]),
         R(24))

IsHollow == shape.kind = "HollowPolygon"

(* outer minus inner product of inertia about the shared centroid          *)
hollow_I_xy ==
    With(<< shape.outer_polygon.x_c, shape.outer_polygon.y_c >>, LAMBDA c :
        RSub(ring_product_of_inertia(shape.outer_polygon.pts, c),
             ring_product_of_inertia(shape.inner_polygon.pts, c)))

(* C13: the product of inertia of a HollowPolygon is the outer polygon's   *)
(* minus the inner polygon's about the shared centroid, so it is non-zero  *)
(* whenever the two differ, and the principal moments and angle of the     *)
(* hollow section are derived from that value.                             *)
C13_HollowProductIsOuterMinusInner ==
    IsHollow
    => /\ call.op = "product_of_inertia"
          => /\ call.value = hollow_I_xy
             /\ product_of_inertia(shape.outer_polygon)
                    # product_of_inertia(shape.inner_polygon) => call.value # Zero
       /\ call.op = "principal_moments_of_inertia"
          => call.value = principal(shape_I_xx(shape), shape_I_yy(shape), hollow_I_xy)

(* C14: the area of a HollowPolygon is the area of the outer polygon minus *)
(* the area of the inner one; for the concentric rectangles 100 x 200 and  *)
(* 80 x 180 it is 5600.                                                    *)
C14_HollowAreaIsOuterMinusInner ==
    /\ IsHollow /\ call.op = "area"
       => call.value = RSub(ring_area(shape.outer_polygon.pts),
                            ring_area(shape.inner_polygon.pts))
    /\ shape_area(HollowPolygon(Rectangle(R(100), R(200)), Rectangle(R(80), R(180))))
           = R(5600)

C14_Witness ==
    /\ IsHollow /\ call.op = "area" /\ call.value = R(56)
    /\ shape = HollowPolygon(Polygon(RectangleRing(10, 20)), Polygon(RectangleRing(8, 18)))

(* the inner vertex list encloses at least the area of the outer one       *)
InnerNotSmaller(outer, inner) ==
    RGe(ring_area(closed_ring(inner)), ring_area(closed_ring(outer)))

(* C15: building a HollowPolygon whose inner polygon has at least the area *)
(* of the outer one fails with a GeometryError, and no HollowPolygon with  *)
(* zero or negative area is obtained.                                      *)
C15_InnerNotSmallerIsGeometryError ==
    /\ call.op = "HollowPolygon" /\ InnerNotSmaller(call.input[1], call.input[2])
       => call.err = "GeometryError"
    /\ IsHollow => RGt(shape_area(shape), Zero)

(* fewer than three vertices, or vertices that enclose no area             *)
IsDegenerate(vs) == Len(vs) < 3 \/ ring_area(closed_ring(vs)) = Zero

(* C16: constructing a Polygon from degenerate input fails with a          *)
(* dedicated geometry or input error and never with a division by zero.    *)
C16_DegenerateIsDedicatedError ==
    call.op = "Polygon" /\ IsDegenerate(call.input[1])
    => call.err \in {"GeometryError", "InvalidInputError"}

(* shape is a Polygon whose four vertices are the corners of its bounding  *)
(* box, listed counter-clockwise                                           *)
ring_xs(pts) == [i \in 1 .. Len(pts) |-> pts[i][1]]
ring_ys(pts) == [i \in 1 .. Len(pts) |-> pts[i][2]]
rectangle_w == RSub(RMaxSeq(ring_xs(shape.pg.pts)), RMinSeq(ring_xs(shape.pg.pts)))
rectangle_h == RSub(RMaxSeq(ring_ys(shape.pg.pts)), RMinSeq(ring_ys(shape.pg.pts)))
IsRectangle ==
    /\ shape.kind = "Polygon"
    /\ Len(shape.pg.pts) = 5
    /\ RGt(ring_area(shape.pg.pts), Zero)
    /\ {shape.pg.pts[i] : i \in 1 .. 4}
           = {Pt(x, y) : x \in {RMinSeq(ring_xs(shape.pg.pts)), RMaxSeq(ring_xs(shape.pg.pts))},
                         y \in {RMinSeq(ring_ys(shape.pg.pts)), RMaxSeq(ring_ys(shape.pg.pts))}}

(* C17: for a rectangle of width w and height h given as a                 *)
(* counter-clockwise Polygon, area = w h, I_xx = w h^3 / 12 about the      *)
(* centroidal axis and I_xy = 0.                                           *)
C17_RectangleClosedForms ==
    IsRectangle
    => /\ call.op = "area" => call.value = RMul(rectangle_w, rectangle_h)
       /\ call.op = "moment_of_inertia_xx"
          => call.value = RDiv(RMul(rectangle_w,
                                    RMul(rectangle_h, RMul(rectangle_h, rectangle_h))),
                               R(12))
       /\ call.op = "product_of_inertia" => call.value = Zero

C17_Witness ==
    /\ IsRectangle /\ rectangle_w = R(2) /\ rectangle_h = R(3)
    /\ call.op = "moment_of_inertia_xx" /\ call.value = Rat(9, 2)

(* C18 as stated: for every rectangle, w < h, w = h and w > h alike, the   *)
(* principal-axis orientation returned by principal_moments_of_inertia is  *)
(* theta = 0.                                                              *)
C18_RectangleThetaIsZero ==
    IsRectangle /\ call.op = "principal_moments_of_inertia"
    => call.value.theta = "0"

(* C18 amended: for a rectangle the principal-axis orientation is          *)
(* theta = 0 when w <= h and theta = -pi/2 when w > h, the major principal *)
(* axis then being the vertical one.                                       *)
C18_RectangleThetaIsMajorAxis ==
    IsRectangle /\ call.op = "principal_moments_of_inertia"
    => call.value.theta = IF RGt(rectangle_w, rectangle_h) THEN "-pi/2" ELSE "0"

C18_Witness ==
    /\ IsRectangle /\ RGt(rectangle_w, rectangle_h)
    /\ call.op = "principal_moments_of_inertia" /\ call.value.theta = "-pi/2"

(* C19: a polygon and the same polygon with its vertices cyclically        *)
(* rotated have the same area, centroid, I_xx, I_yy and I_xy.              *)
C19_RotationInvariant ==
    call.op = "Polygon" /\ call.err = "none"
    => \A n \in 0 .. Len(call.input[1]) - 1 :
           With(Polygon(Rotate(call.input[1], n)), LAMBDA pg :
               /\ pg.err = "none"
               /\ pg.A = shape.pg.A
               /\ << pg.x_c, pg.y_c >> = << shape.pg.x_c, shape.pg.y_c >>
               /\ moment_of_inertia_xx(pg) = moment_of_inertia_xx(shape.pg)
               /\ moment_of_inertia_yy(pg) = moment_of_inertia_yy(shape.pg)
               /\ product_of_inertia(pg) = product_of_inertia(shape.pg))

C19_Witness ==
    /\ call.op = "Polygon" /\ call.err = "none"
    /\ call.input[1] = Rotate(ZShapeVertices, 3)
    /\ shape.pg.pts[1] = ZShapeVertices[4]
    /\ product_of_inertia(shape.pg) # Zero

(* C20: calls of tau(y) and shear_flow(y) have no side effects: they leave *)
(* the shape, V and tau_max as they were, and tau at the centroid returns  *)
(* the value it returned to __init__ whichever calls came in between.      *)
C20_TauAndShearFlowAreReadOnly ==
    /\ [][call'.op \in {"tau", "shear_flow"}
            => shape' = shape /\ V' = V /\ tau_max' = tau_max]_vars
    /\ [](call.op = "tau" /\ call.y = Zero /\ call.returned => call.value = tau_max)

C20_Witness ==
    /\ obj = "ready" /\ call.op = "tau" /\ call.retried /\ call.returned
    /\ call.value # tau_max
    /\ tau_max = tau(V, shape, Zero).value

(* every point of the ring after is the point of the ring before moved by  *)
(* the displacement of the centroid                                        *)
IsRigidTranslation(before, after) ==
    /\ Len(after.pts) = Len(before.pts)
    /\ \A k \in 1 .. Len(before.pts) :
           /\ RSub(after.pts[k][1], before.pts[k][1]) = RSub(after.x_c, before.x_c)
           /\ RSub(after.pts[k][2], before.pts[k][2]) = RSub(after.y_c, before.y_c)

SameSectionProperties(before, after) ==
    /\ after.A = before.A
    /\ moment_of_inertia_xx(after) = moment_of_inertia_xx(before)
    /\ moment_of_inertia_yy(after) = moment_of_inertia_yy(before)
    /\ product_of_inertia(after) = product_of_inertia(before)
    /\ polar_moment_of_inertia(after) = polar_moment_of_inertia(before)
    /\ principal(moment_of_inertia_xx(after), moment_of_inertia_yy(after),
                 product_of_inertia(after))
           = principal(moment_of_inertia_xx(before), moment_of_inertia_yy(before),
                       product_of_inertia(before))
    /\ vertices(after) = vertices(before)

(* C21: Polygon.shift(x, y) moves every vertex and the centroid by one     *)
(* common displacement and changes nothing else: area, I_xx, I_yy, I_xy,   *)
(* J, the principal moments and angle and the centroid-relative vertices   *)
(* are the same before and after.                                          *)
C21_ShiftIsRigidTranslation ==
    [][call'.op = "shift"
         => /\ IsRigidTranslation(shape.pg, shape'.pg)
            /\ SameSectionProperties(shape.pg, shape'.pg)
            /\ [shape' EXCEPT !.pg = shape.pg] = shape]_vars

C21_Witness ==
    /\ call.op = "shift" /\ shape.kind = "Polygon"
    /\ << shape.pg.x_c, shape.pg.y_c >> = P2(1, -2)
    /\ shape.pg.pts[1] = Pt(R(-2), R(-4))
    /\ product_of_inertia(shape.pg) # Zero

(* the two polygons of the k-th HollowPolygon object have one centroid     *)
Concentric(h, k) ==
    With(<< h.polys[h.hollows[k].outer_polygon], h.polys[h.hollows[k].inner_polygon] >>,
         LAMBDA p : << p[1].x_c, p[1].y_c >> = << p[2].x_c, p[2].y_c >>)

(* C22: once HollowPolygon(outer, inner) is constructed, the centroid of   *)
(* its inner polygon coincides with that of its outer polygon in every     *)
(* later state, also after further HollowPolygon objects were built from   *)
(* the same Polygon objects.                                               *)
C22_HollowStaysConcentric ==
    \A k \in 1 .. Len(heap.hollows) : Concentric(heap, k)

(* C23: a Polygon never holds two equal consecutive points: consecutive    *)
(* duplicate input vertices are collapsed on construction, so `vertices`   *)
(* and the segment ring built from it hold no zero-length edge.            *)
C23_NoEqualConsecutivePoints ==
    shape.kind = "Polygon"
    => /\ \A i \in 1 .. Len(shape.pg.pts) - 1 : shape.pg.pts[i] # shape.pg.pts[i + 1]
       /\ \A i \in 1 .. Len(vertices(shape.pg)) - 1 :
              vertices(shape.pg)[i] # vertices(shape.pg)[i + 1]
       /\ \A i \in 1 .. Len(shape.pg.pts) - 1 :
              With(create_polygon_line_segments(shape.pg, 0)[i], LAMBDA seg :
                  seg.p1 # seg.p2)

(* the cut line at height y crosses the non-horizontal segment seg between *)
(* its end points                                                          *)
IsCrossed(seg, y) == RLt(seg.y_min, y) /\ RLt(y, seg.y_max)

(* the point of seg at height y                                            *)
crossing_point(seg, y) ==
    Pt(RAdd(x1(seg), RDiv(RMul(RSub(y, y1(seg)), RSub(x2(seg), x1(seg))),
                           RSub(y2(seg), y1(seg)))), y)

(* the part of seg between its crossing point and its end point on the    *)
(* beyond-y side, in the direction of seg                                  *)
beyond_part(seg, y) ==
    IF is_beyond(y, y1(seg))
    THEN << seg.p1, crossing_point(seg, y) >>
    ELSE << crossing_point(seg, y), seg.p2 >>

(* C24: _cut_polygon replaces every non-horizontal segment the cut line    *)
(* crosses, whatever its direction, by the part between the intersection   *)
(* point and its end point on the beyond-y side, keeping the direction     *)
(* p1 -> p2; horizontal segments are left untouched.                       *)
C24_ClipKeepsBeyondPart ==
    call.op = "cut_polygon"
    => \A i \in 1 .. Len(create_line_segments(shape)) :
           With(<< create_line_segments(shape)[i],
                   clip_segments(call.y, create_line_segments(shape))[i] >>, LAMBDA c :
               /\ is_horizontal(c[1]) => c[2] = c[1]
               /\ ~is_horizontal(c[1]) /\ IsCrossed(c[1], call.y)
                  => << c[2].p1, c[2].p2 >> = beyond_part(c[1], call.y))

(* the clipped segments __order_segments receives for a cut at height y    *)
clipped_input(y) == clip_segments(y, create_line_segments(shape))

(* a horizontal segment (slope 0) on the side of the cut line that is cut  *)
(* away                                                                    *)
OnExcludedSide(y, s) ==
    /\ is_horizontal(s)
    /\ IF RGe(y, Zero) THEN RLt(y1(s), y) ELSE RGt(y1(s), y)

(* C25: __order_segments drops exactly the horizontal segments on the      *)
(* excluded side (y1 < y when y >= 0, y1 > y when y < 0) and returns every *)
(* other input segment exactly once: the output is a permutation of the    *)
(* retained segments.                                                      *)
C25_OrderIsPermutationOfRetained ==
    call.op = "cut_polygon"
    => With(<< clipped_input(call.y), order_segments(call.y, clipped_input(call.y)) >>,
            LAMBDA io :
               /\ \A i \in 1 .. Len(io[1]) :
                      Cardinality({j \in 1 .. Len(io[2]) : io[2][j] = io[1][i]})
                          = IF OnExcludedSide(call.y, io[1][i]) THEN 0 ELSE 1
               /\ \A j \in 1 .. Len(io[2]) : \E i \in 1 .. Len(io[1]) : io[2][j] = io[1][i]
               /\ Len(io[2]) = Cardinality({i \in 1 .. Len(io[1]) :
                                               ~OnExcludedSide(call.y, io[1][i])}))

(* a cut that drops a horizontal segment, keeps another one, and returns   *)
(* the retained segments in an order other than the input order            *)
C25_Witness ==
    /\ call.op = "cut_polygon"
    /\ With(<< clipped_input(call.y), order_segments(call.y, clipped_input(call.y)) >>,
            LAMBDA io :
               /\ \E i \in 1 .. Len(io[1]) : OnExcludedSide(call.y, io[1][i])
               /\ \E i \in 1 .. Len(io[1]) :
                      is_horizontal(io[1][i]) /\ ~OnExcludedSide(call.y, io[1][i])
               /\ Len(io[2]) >= 3
               /\ io[2] # SelectSeq(io[1], LAMBDA s : ~OnExcludedSide(call.y, s)))

(* the states << valid_segments, ordered_segments, current_segment >> the  *)
(* while loop of __order_segments passes through, at most fuel iterations  *)
RECURSIVE order_trace(_, _, _, _)
order_trace(valid_segments, ordered_segments, current_segment, fuel) ==
    IF valid_segments = << >> \/ fuel = 0
    THEN << << valid_segments, ordered_segments, current_segment >> >>
    ELSE << << valid_segments, ordered_segments, current_segment >> >> \o
         With(order_step(valid_segments, ordered_segments, current_segment), LAMBDA st :
              order_trace(st[1], st[2], st[3], fuel - 1))

(* the segments of a cut at height y that pass the filter of               *)
(* __order_segments                                                        *)
retained(y) == SelectSeq(clipped_input(y), LAMBDA s : ~is_excluded(y, s))

(* the loop states of __order_segments for a cut at height y               *)
loop_states(y) ==
    IF retained(y) = << >> THEN << >>
    ELSE order_trace(Tail(retained(y)), << Head(retained(y)) >>, Head(retained(y)),
                     Len(retained(y)))

(* neighbours in the list that are both segments are joined end to start   *)
ChainsAreConnected(ordered_segments) ==
    \A j \in 1 .. Len(ordered_segments) - 1 :
        ordered_segments[j].id # 0 /\ ordered_segments[j + 1].id # 0
        => ordered_segments[j].p2 = ordered_segments[j + 1].p1

(* C26: at every step of __order_segments two segments that are adjacent   *)
(* in the ordered list with no chain-break marker between them are         *)
(* connected: the p2 of the earlier one is the p1 of the later one.        *)
C26_AdjacentSegmentsAreConnected ==
    call.op = "cut_polygon"
    => \A k \in 1 .. Len(loop_states(call.y)) :
           ChainsAreConnected(loop_states(call.y)[k][2])

(* the heights at which the loop is looked at: the height of the cut just  *)
(* made, every height of HeightSet for a section not cut yet               *)
LoopHeights ==
    IF call.op = "cut_polygon" THEN {call.y}
    ELSE IF obj = "new" /\ call = NoCall THEN HeightSet
    ELSE {}

(* C27: the reordering loop of the cut terminates: each iteration removes  *)
(* at least one segment from the pool valid_segments, so the pool is empty *)
(* after at most as many iterations as there are retained segments.        *)
C27_OrderLoopTerminates ==
    \A y \in LoopHeights :
        With(loop_states(y), LAMBDA tr :
            /\ \A k \in 1 .. Len(tr) - 1 : Len(tr[k + 1][1]) < Len(tr[k][1])
            /\ tr # << >> => tr[Len(tr)][1] = << >>
            /\ Len(tr) - 1 <= Len(retained(y)))

(* a cut whose loop ran three iterations or more, one of them removing two *)
(* segments and one of them starting a new chain                           *)
C27_Witness ==
    /\ call.op = "cut_polygon"
    /\ With(loop_states(call.y), LAMBDA tr :
           /\ Len(tr) >= 4
           /\ \E k \in 1 .. Len(tr) - 1 : Len(tr[k + 1][1]) = Len(tr[k][1]) - 2
           /\ \E k \in 1 .. Len(tr) - 1 :
                  /\ Len(tr[k + 1][2]) = Len(tr[k][2]) + 2
                  /\ tr[k + 1][2][Len(tr[k][2]) + 1].id = 0
           /\ tr[Len(tr)][1] = << >>)

(* C28: the cut is mirror-symmetric; for a section symmetric about its     *)
(* horizontal centroidal axis (Rectangle, HShape, HollowRectangle) tau(y)  *)
(* and the cut width at y equal those at -y, for every y, the flange/web   *)
(* boundary heights included.                                              *)
C28_TauIsMirrorSymmetric ==
    (call.op = "tau" /\ shape.cls \in {"Rectangle", "HShape", "HollowRectangle"})
    => With(tau(V, shape, RNeg(call.y)), LAMBDA mirrored :
           /\ mirrored.err = call.err
           /\ mirrored.returned = call.returned
           /\ mirrored.value = call.value
           /\ mirrored.t = call.t)

(* the segment runs along a horizontal or along a vertical line            *)
IsAxisParallel(s) == s.p1[1] = s.p2[1] \/ s.p1[2] = s.p2[2]

(* v lies between a and b, both included                                   *)
Between(a, v, b) == (RLe(a, v) /\ RLe(v, b)) \/ (RLe(b, v) /\ RLe(v, a))

(* the point lies on the segment, end points included                      *)
LiesOn(s, point) ==
    /\ Between(s.p1[1], point[1], s.p2[1])
    /\ Between(s.p1[2], point[2], s.p2[2])

(* C29: for a horizontal or a vertical LineSegment contains(p) is true     *)
(* exactly when p lies on the segment, both end points included; x(y)      *)
(* returns None exactly when y lies outside [y_min, y_max] and y(x)        *)
(* returns None exactly when x lies outside [x_min, x_max].                *)
C29_AxisParallelSegmentIsInclusive ==
    IsAxisParallel(line_segment)
    => /\ call.op = "contains" => (call.value <=> LiesOn(line_segment, call.arg))
       /\ call.op = "x"
          => (call.none <=> ~Between(line_segment.p1[2], call.arg, line_segment.p2[2]))
       /\ call.op = "y"
          => (call.none <=> ~Between(line_segment.p1[1], call.arg, line_segment.p2[1]))

(* contains answered TRUE for the end point p2 of a horizontal segment of  *)
(* length 2 that runs from right to left                                   *)
C29_Witness ==
    /\ call.op = "contains"
    /\ line_segment.p1 = P2(2, 1) /\ line_segment.p2 = P2(0, 1)
    /\ call.arg = line_segment.p2
    /\ call.value = TRUE

(* what an accessor has to give when load is the load set last: the stress *)
(* of that load, or ValueError when the load set last is zero              *)
StressOf(load, stress) == IF load = Zero THEN Raised("ValueError") ELSE Returned(stress)

(* C30: after a setter call every accessor of the load that was set raises *)
(* ValueError when no such load is acting, or returns the stress of the    *)
(* load set by that call; it never returns the stress of an earlier load   *)
(* that the call has superseded (for instance with a zero magnitude).      *)
C30_AccessorsFollowLastLoad ==
    [][/\ call'.op = "set_normal_force"
          => sigma_N_avg(section')
               = StressOf(call'.args[1],
                          Some(AxialLoading(call'.args[1], shape).sigma))
       /\ call'.op = "set_shear_force"
          => /\ tau_V_avg(section')
                  = StressOf(call'.args[1],
                             Some(SimpleShear(call'.args[1], shape).tau))
             /\ tau_V_max(section')
                  = StressOf(call'.args[1],
                             Some(TransverseShear(call'.args[1], shape).tau_max))
       /\ call'.op = "set_torque"
          => tau_T_max(section')
               = StressOf(call'.args[1], Torsion(call'.args[1], shape).tau_max)
       /\ call'.op = "set_bending_moment" /\ ~call'.args[2].none
          => sigma_M_max(section')
               = IF call'.args[1] = Zero /\ call'.args[2].v = Zero
                 THEN Raised("ValueError")
                 ELSE Returned(Some(<< call'.args[1], call'.args[2].v >>))
       /\ call'.op = "set_internal_loadings"
          => sigma_N_avg(section')
               = StressOf(call'.args[1][1],
                          Some(AxialLoading(call'.args[1][1], shape).sigma))
      ]_vars

====
